---- MODULE Spec2Model ----
(***************************************************************************)
(* F1 reaction game: the timing/state core.                                *)
(*                                                                         *)
(*   GameTimer     src/src/shared/types/timer.ts                           *)
(*   CarManager    src/src/shared/types/car.ts                             *)
(*   TrackManager  src/unnamed/part_000   (shared/types/track.ts)          *)
(*   useGameState  src/src/client/hooks/useGameState.ts                    *)
(*                                                                         *)
(* Units.  Time is in whole milliseconds (performance.now()).  Speeds are  *)
(* in tenths of a metre per second, so that the reaction bonuses 15 x 1.5  *)
(* = 22.5 m/s and 15 x 1.2 = 18 m/s are integers (225, 180).  Distances    *)
(* are in units of 0.0001 m, so that speed x deltaTime / 1000 is exactly   *)
(* speed * deltaTime in model units and no rounding is introduced.         *)
(*                                                                         *)
(* One event-loop task (a click/key handler, an animation frame, a timer   *)
(* callback) is one action: JavaScript runs it to completion, and every    *)
(* performance.now() read inside one task returns the same instant `now`.  *)
(***************************************************************************)
EXTENDS Integers, Sequences, FiniteSets, TLC

VARIABLES
    now,                  \* performance.now(), ms
    mode,                 \* which object is being driven: "hook", "car", "track"
    track,                \* the Track / GameConfig.track in use
    timer,                \* GameTimer fields
    car,                  \* CarManager.car
    activeCheckpoints,    \* TrackManager.activeCheckpoints (Map, insertion order)
    processedCheckpoints, \* TrackManager.processedCheckpoints (Set of keys)
    gameState,            \* React state of useGameState
    inputCooldown,        \* inputCooldownRef.current
    activePenalties,      \* activePenaltiesRef.current
    timeouts,             \* pending setTimeout callbacks of the penalty path, oldest first
    pendingStarts,        \* pending setTimeout(() => startRace(), 0) callbacks
    frameDue,             \* the requestAnimationFrame callback is due at `now`
    networkError,         \* React state of useNetworkError: the stored error
    isRetrying,           \* React state of useNetworkError: a retry is under way
    retries,              \* retryRequest calls that have not returned yet
    budget,               \* calls left to the environment (model bound)
    hist                  \* history (ghost) variables read only by the properties

vars == << now, mode, track, timer, car, activeCheckpoints, processedCheckpoints,
           gameState, inputCooldown, activePenalties, timeouts, pendingStarts,
           frameDue, networkError, isRetrying, retries, budget, hist >>

netVars == << networkError, isRetrying, retries >>

-----------------------------------------------------------------------------
(* Units *)

Metres(m) == 10000 * m          \* distance units per metre
MPS(v) == 10 * v                \* speed units per m/s

Max(a, b) == IF a >= b THEN a ELSE b
Min(a, b) == IF a <= b THEN a ELSE b

RECURSIVE SumSeq(_)
SumSeq(s) == IF s = << >> THEN 0 ELSE Head(s) + SumSeq(Tail(s))

-----------------------------------------------------------------------------
(* Program constants *)

InputCooldownMs == 100
PerfectReactionMs == 200
GoodReactionMs == 500
PenaltyDurationMs == 1000
PenaltyFlagMs == 1000
MaxDeltaMs == 100

ControlTypes == {"brake", "acceleration"}

\* controlType === 'brake' ? 'brake_point' : 'straight_point'
CheckpointType(controlType) ==
    IF controlType = "brake" THEN "brake_point" ELSE "straight_point"

-----------------------------------------------------------------------------
(* Model bounds *)

Quantum == 100          \* one animation frame: the clock advances Quantum ms
JitterMs == 1           \* a player input may arrive JitterMs after a frame
MountQuanta == 3        \* the hook is mounted MountQuanta frames after the time origin

\* Spec: every command of the hook, over a few frames.
MaxQuanta == 5          \* the clock stops at MaxQuanta * Quantum ms
MaxInputs == 2          \* handleControlInput calls per run
MaxLifecycle == 2       \* startRace / stopRace / resetGame / restartRace calls per run

\* SpecRace: one race, long enough for every reaction tier.
MaxRaceQuanta == 10
MaxRaceInputs == 2

\* SpecStale: races one after another, long enough for a penalty timeout to
\* fall due; the player uses the brake only, on the frame grid.
MaxStaleQuanta == 13
MaxStaleInputs == 3

-----------------------------------------------------------------------------
(* GameTimer  (src/src/shared/types/timer.ts) *)

\* Math.round(x * 10) / 10 on a time in ms.  Model times are whole
\* milliseconds, which this rounding maps to themselves.
RoundTenth(ms) == (ms * 10) \div 10

GameTimerInit ==
    [startTime |-> 0, lastFrameTime |-> 0, isRunning |-> FALSE,
     pausedTime |-> 0, totalPausedDuration |-> 0]

\* Mutant of GameTimer_start: lastFrameTime keeps its old value.
GameTimer_start_StaleFrame(t, currentTime) ==
    IF ~t.isRunning
    THEN [t EXCEPT !.startTime = currentTime - t.totalPausedDuration,
                   !.isRunning = TRUE]
    ELSE t

GameTimer_start(t, currentTime) ==
    IF ~t.isRunning
    THEN [t EXCEPT !.startTime = currentTime - t.totalPausedDuration,
                   !.lastFrameTime = currentTime,
                   !.isRunning = TRUE]
    ELSE t

\* Mutant of GameTimer_stop: stamps the pause time of a stopped timer again.
GameTimer_stop_Unguarded(t, currentTime) ==
    [t EXCEPT !.pausedTime = currentTime, !.isRunning = FALSE]

GameTimer_stop(t, currentTime) ==
    IF t.isRunning
    THEN [t EXCEPT !.pausedTime = currentTime, !.isRunning = FALSE]
    ELSE t

\* Mutant of GameTimer_reset: carries the last pause time over.
GameTimer_reset_Carry(t) ==
    [startTime |-> 0, lastFrameTime |-> 0, isRunning |-> FALSE,
     pausedTime |-> 0, totalPausedDuration |-> t.pausedTime]

GameTimer_reset(t) ==
    [startTime |-> 0, lastFrameTime |-> 0, isRunning |-> FALSE,
     pausedTime |-> 0, totalPausedDuration |-> 0]

\* Mutant of getCurrentTime: reads the clock whether or not the timer runs.
getCurrentTime_Live(t, currentTime) == RoundTenth(currentTime - t.startTime)

getCurrentTime(t, currentTime) ==
    IF ~t.isRunning
    THEN IF t.pausedTime > 0 THEN RoundTenth(t.pausedTime - t.startTime) ELSE 0
    ELSE RoundTenth(currentTime - t.startTime)

\* Mutant of getDeltaTime: no cap.
getDeltaTime_Uncapped(t, currentTime) ==
    IF ~t.isRunning
    THEN [delta |-> 0, timer |-> t]
    ELSE [delta |-> currentTime - t.lastFrameTime,
          timer |-> [t EXCEPT !.lastFrameTime = currentTime]]

\* Returns the capped delta and the timer with lastFrameTime moved.
getDeltaTime(t, currentTime) ==
    IF ~t.isRunning
    THEN [delta |-> 0, timer |-> t]
    ELSE [delta |-> Min(currentTime - t.lastFrameTime, MaxDeltaMs),
          timer |-> [t EXCEPT !.lastFrameTime = currentTime]]

-----------------------------------------------------------------------------
(* CarManager  (src/src/shared/types/car.ts) *)

SpeedModifier(type, amount, startTime, duration) ==
    [type |-> type, amount |-> amount, startTime |-> startTime, duration |-> duration]

\* Mutant of updatePosition: no clamp at the track distance.
updatePosition_NoClamp(c, deltaTime, trackDistance) ==
    [c EXCEPT !.distanceCovered = c.distanceCovered + c.currentSpeed * deltaTime]

\* distanceIncrement = currentSpeed * (deltaTime / 1000): in model units
\* (0.1 m/s, ms, 0.0001 m) this is currentSpeed * deltaTime.
updatePosition(c, deltaTime, trackDistance) ==
    [c EXCEPT !.distanceCovered =
        Min(c.distanceCovered + c.currentSpeed * deltaTime, trackDistance)]

\* Mutant of IsUnexpired: the filter keeps a modifier at age = duration.
IsUnexpired_Inclusive(m, currentTime) == (currentTime - m.startTime) <= m.duration

\* speedModifiers.filter(m => (currentTime - m.startTime) < m.duration)
IsUnexpired(m, currentTime) == (currentTime - m.startTime) < m.duration

ActiveModifiers(mods, currentTime) ==
    SelectSeq(mods, LAMBDA m : IsUnexpired(m, currentTime))

\* One iteration of the loop over the modifiers.
ApplyModifier(speed, m) ==
    IF m.type = "increase" THEN speed + m.amount ELSE Max(0, speed - m.amount)

RECURSIVE ApplyModifiers(_, _)
ApplyModifiers(speed, mods) ==
    IF mods = << >> THEN speed
    ELSE ApplyModifiers(ApplyModifier(speed, Head(mods)), Tail(mods))

updateCurrentSpeed(c, currentTime) ==
    LET kept == ActiveModifiers(c.speedModifiers, currentTime)
    IN  [c EXCEPT !.speedModifiers = kept,
                  !.currentSpeed = ApplyModifiers(c.baseSpeed, kept)]

CarManager_addSpeedModifier(c, type, amount, duration, currentTime) ==
    updateCurrentSpeed(
        [c EXCEPT !.speedModifiers =
            Append(@, SpeedModifier(type, amount, currentTime, duration))],
        currentTime)

\* Mutant of isRaceComplete: strictly beyond the track distance.
isRaceComplete_Strict(c, trackDistance) == c.distanceCovered > trackDistance

isRaceComplete(c, trackDistance) == c.distanceCovered >= trackDistance

CarManager_reset(baseSpeed) ==
    [distanceCovered |-> 0, currentSpeed |-> baseSpeed, baseSpeed |-> baseSpeed,
     speedModifiers |-> << >>]

-----------------------------------------------------------------------------
(* TrackManager  (src/unnamed/part_000) *)
(* tm is [active, processed]: activeCheckpoints is a Map iterated in        *)
(* insertion order, modelled as the sequence of its values (a key is only   *)
(* ever set while absent, so a set() always appends); processedCheckpoints  *)
(* is the set of keys `${kind}_${distance}`.                                *)

CheckpointKey(type, distance) == [type |-> type, distance |-> distance]

KeyOf(event) == CheckpointKey(event.type, event.distance)

NoEvent == [type |-> "null", distance |-> 0, activatedAt |-> 0, duration |-> 0]

HasActive(tm, key) ==
    \E i \in 1..Len(tm.active) : KeyOf(tm.active[i]) = key

\* The loop of checkBrakePoints / checkStraightPoints: the first point of the
\* array, in array order, that the car has reached and that is neither active
\* nor processed; 0 when there is none.
\* Mutant of IsNewlyReached: only the active map is consulted, not the
\* processed set.
IsNewlyReached_ActiveOnly(tm, type, point, carDistance) ==
    /\ carDistance >= point
    /\ ~HasActive(tm, CheckpointKey(type, point))

\* Mutant of IsNewlyReached: the car has to stand exactly on the point.
IsNewlyReached_Exact(tm, type, point, carDistance) ==
    /\ carDistance = point
    /\ ~HasActive(tm, CheckpointKey(type, point))
    /\ CheckpointKey(type, point) \notin tm.processed

IsNewlyReached(tm, type, point, carDistance) ==
    /\ carDistance >= point
    /\ ~HasActive(tm, CheckpointKey(type, point))
    /\ CheckpointKey(type, point) \notin tm.processed

FirstReached(tm, points, type, carDistance) ==
    LET hits == {i \in 1..Len(points) : IsNewlyReached(tm, type, points[i], carDistance)}
    IN  IF hits = {} THEN 0 ELSE CHOOSE i \in hits : \A j \in hits : i <= j

\* Mutant of CheckPoints: the fired trigger is not added to the processed set.
CheckPoints_Unrecorded(trk, tm, points, type, carDistance, currentTime) ==
    LET i == FirstReached(tm, points, type, carDistance)
        event == [type |-> type, distance |-> points[i],
                  activatedAt |-> currentTime, duration |-> trk.pointDuration]
    IN  IF i = 0
        THEN [event |-> NoEvent, tm |-> tm]
        ELSE [event |-> event,
              tm |-> [active |-> Append(tm.active, event), processed |-> tm.processed]]

CheckPoints(trk, tm, points, type, carDistance, currentTime) ==
    LET i == FirstReached(tm, points, type, carDistance)
        event == [type |-> type, distance |-> points[i],
                  activatedAt |-> currentTime, duration |-> trk.pointDuration]
    IN  IF i = 0
        THEN [event |-> NoEvent, tm |-> tm]
        ELSE [event |-> event,
              tm |-> [active |-> Append(tm.active, event),
                      processed |-> tm.processed \cup {KeyOf(event)}]]

checkBrakePoints(trk, tm, carDistance, currentTime) ==
    CheckPoints(trk, tm, trk.brakePoints, "brake_point", carDistance, currentTime)

checkStraightPoints(trk, tm, carDistance, currentTime) ==
    CheckPoints(trk, tm, trk.straightPoints, "straight_point", carDistance, currentTime)

InactiveControl == [isActive |-> FALSE, activatedAt |-> 0, duration |-> 0]

IsExpired(checkpoint, currentTime) ==
    (currentTime - checkpoint.activatedAt) >= checkpoint.duration

\* The second loop of getControlStates: every surviving checkpoint overwrites
\* the state of its kind, so the last one in insertion order wins.
RECURSIVE ControlStateOf(_, _, _)
ControlStateOf(active, type, currentTime) ==
    IF active = << >> THEN InactiveControl
    ELSE LET n == Len(active)
             last == active[n]
         IN  IF last.type = type /\ (currentTime - last.activatedAt) < last.duration
             THEN [isActive |-> TRUE, activatedAt |-> last.activatedAt,
                   duration |-> last.duration]
             ELSE ControlStateOf(SubSeq(active, 1, n - 1), type, currentTime)

getControlStates(tm, currentTime) ==
    LET kept == SelectSeq(tm.active, LAMBDA cp : ~IsExpired(cp, currentTime))
    IN  [states |-> [brake |-> ControlStateOf(kept, "brake_point", currentTime),
                     acceleration |-> ControlStateOf(kept, "straight_point", currentTime)],
         tm |-> [tm EXCEPT !.active = kept]]

\* The loops of getRemainingDuration / isControlActive return at the first
\* active checkpoint of the kind, in insertion order.
OfType(active, type) == SelectSeq(active, LAMBDA cp : cp.type = type)

\* Mutant of getRemainingDuration: the full window instead of what is left.
getRemainingDuration_Full(tm, controlType, currentTime) ==
    LET mine == OfType(tm.active, CheckpointType(controlType))
    IN  IF mine = << >> THEN 0 ELSE mine[1].duration

getRemainingDuration(tm, controlType, currentTime) ==
    LET mine == OfType(tm.active, CheckpointType(controlType))
    IN  IF mine = << >> THEN 0
        ELSE Max(0, mine[1].duration - (currentTime - mine[1].activatedAt))

isControlActive(tm, controlType, currentTime) ==
    LET mine == OfType(tm.active, CheckpointType(controlType))
    IN  IF mine = << >> THEN FALSE
        ELSE (currentTime - mine[1].activatedAt) < mine[1].duration

TrackManager_reset(tm) == [active |-> << >>, processed |-> {}]

\* Mutant of deactivateControl: every active trigger is removed.
deactivateControl_AllKinds(tm, controlType) == [tm EXCEPT !.active = << >>]

\* Mutant of deactivateControl: the window is left open.
deactivateControl_Noop(tm, controlType) == tm

deactivateControl(tm, controlType) ==
    [tm EXCEPT !.active =
        SelectSeq(@, LAMBDA cp : cp.type # CheckpointType(controlType))]

-----------------------------------------------------------------------------
(* Configurations *)

\* Mutant of DEFAULT_GAME_CONFIG: windows of 5000 ms.
DEFAULT_GAME_CONFIG_LongWindow ==
    [distance |-> Metres(1000), averageSpeed |-> MPS(50),
     brakePoints |-> << Metres(200), Metres(400), Metres(700), Metres(900) >>,
     straightPoints |-> << Metres(100), Metres(350), Metres(600), Metres(850) >>,
     speedIncrease |-> MPS(15), pointDuration |-> 5000, speedDecrease |-> MPS(10)]

\* DEFAULT_GAME_CONFIG.track / createDefaultGameConfig().track
DEFAULT_GAME_CONFIG ==
    [distance |-> Metres(1000), averageSpeed |-> MPS(50),
     brakePoints |-> << Metres(200), Metres(400), Metres(700), Metres(900) >>,
     straightPoints |-> << Metres(100), Metres(350), Metres(600), Metres(850) >>,
     speedIncrease |-> MPS(15), pointDuration |-> 2000, speedDecrease |-> MPS(10)]

\* A short track with windows of 700 ms.  The triggers of one kind are 40 m
\* apart, so that a window has closed before the next trigger of the kind is
\* reached at the highest speed the boosts allow (50 + 2 x 3 m/s).
ShortTrack ==
    [distance |-> Metres(55), averageSpeed |-> MPS(50),
     brakePoints |-> << Metres(10), Metres(50) >>,
     straightPoints |-> << Metres(5), Metres(45) >>,
     speedIncrease |-> MPS(2), pointDuration |-> 700, speedDecrease |-> MPS(10)]

\* A track for driving TrackManager alone: distances 1..3, windows of 2 ms.
BenchTrack ==
    [distance |-> 4, averageSpeed |-> 1,
     brakePoints |-> << 1, 3 >>, straightPoints |-> << 2, 3 >>,
     speedIncrease |-> 1, pointDuration |-> 2, speedDecrease |-> 1]

\* createInitialGameState(config)
\* null, for the two nullable times of the state (every real time is >= 0)
Null == 0 - 1

createInitialGameState(config) ==
    [track |-> [distance |-> config.distance, averageSpeed |-> config.averageSpeed,
                raceTime |-> Null,
                brakePoints |-> config.brakePoints,
                straightPoints |-> config.straightPoints,
                speedIncrease |-> config.speedIncrease,
                pointDuration |-> config.pointDuration,
                speedDecrease |-> config.speedDecrease],
     car |-> [distanceCovered |-> 0, currentSpeed |-> config.averageSpeed,
              baseSpeed |-> config.averageSpeed, speedModifiers |-> << >>],
     gameStatus |-> "idle",
     activeControls |-> [brake |-> InactiveControl, acceleration |-> InactiveControl],
     raceStartTime |-> Null]

TM == [active |-> activeCheckpoints, processed |-> processedCheckpoints]

AllKeys(trk) ==
    {CheckpointKey("brake_point", trk.brakePoints[i]) : i \in 1..Len(trk.brakePoints)}
    \cup {CheckpointKey("straight_point", trk.straightPoints[i]) :
            i \in 1..Len(trk.straightPoints)}

-----------------------------------------------------------------------------
(* History variables.  They record what the operations returned or did, so  *)
(* that properties over calls can be stated as state predicates; no action  *)
(* of the program reads them.                                               *)

NoTime == 0 - 1

NoInput ==
    [controlType |-> "none", outcome |-> "none", at |-> NoTime,
     triggers |-> << >>,       \* unexpired active triggers of the kind before the call
     prevAccepted |-> NoTime,  \* time of the previous accepted input of the kind
     prevSameRace |-> FALSE,   \* ... and whether it belonged to the current race
     prevPenalty |-> NoTime]   \* time of the previous penalty of the kind, this race

HistInit(trk) ==
    [op |-> "init",
     arg |-> 0,                                     \* the argument of the last call (bench)
     lastDeltaAt |-> NoTime,                        \* last getDeltaTime() call or effective start()
     deltaSum |-> 0,                                \* sum of the getDeltaTime() results since start() / reset()
     prevModifiers |-> << >>,                       \* modifiers before the last recompute
     fired |-> [k \in AllKeys(trk) |-> 0],          \* events returned per trigger since reset()
     lastPos |-> 0,                                 \* position of the last arrival check
     lastEvent |-> NoEvent,                         \* what the last arrival check returned
     races |-> 0,                                   \* startRace / resetGame calls so far
     lastInput |-> NoInput,                         \* the last handleControlInput call
     boosts |-> [k \in ControlTypes |-> 0],         \* increase modifiers added, this race
     reacted |-> [k \in ControlTypes |-> FALSE],    \* boosted, and no trigger of the kind fired since
     penaltyAt |-> [k \in ControlTypes |-> NoTime], \* last penalty of the kind, this race
     acceptedAt |-> [k \in ControlTypes |-> NoTime],\* last accepted input of the kind
     acceptedRace |-> [k \in ControlTypes |-> 0],   \* the race it belonged to
     windowEnd |-> [k \in ControlTypes |-> NoTime] \* when the window last reacted to would have closed
    ]

\* useNetworkError before any error: networkError is null, nothing in flight.
NoNetworkError == [message |-> "null", status |-> 0, retryCount |-> 0, timestamp |-> 0]

NetInit ==
    /\ networkError = NoNetworkError
    /\ isRetrying = FALSE
    /\ retries = << >>

InitWith(m, trk, c) ==
    /\ mode = m
    /\ now = 0
    /\ track = trk
    /\ timer = GameTimerInit
    /\ car = c
    /\ activeCheckpoints = << >>
    /\ processedCheckpoints = {}
    /\ gameState = createInitialGameState(trk)
    /\ inputCooldown = [brake |-> 0, acceleration |-> 0]
    /\ activePenalties = {}
    /\ timeouts = << >>
    /\ pendingStarts = 0
    /\ frameDue = FALSE
    /\ NetInit
    /\ hist = HistInit(trk)

hookVars == << timer, gameState, inputCooldown, activePenalties, timeouts,
               pendingStarts, frameDue >>

-----------------------------------------------------------------------------
(* CarManager driven alone: any sequence of addSpeedModifier and            *)
(* updateCurrentSpeed calls, with the clock advancing 1 ms at a time.       *)

MaxCarTime == 3          \* the clock of the CarManager bench stops here
MaxCarAdds == 3          \* addSpeedModifier calls per run

CarBaseSpeeds == {3, 5}
CarAmounts == {2, 7}
CarDurations == {1, 3}

InitCar ==
    /\ \E b \in CarBaseSpeeds :
          InitWith("car", BenchTrack, CarManager_reset(b))
    /\ budget = [adds |-> MaxCarAdds, inputs |-> 0, lifecycle |-> 0, horizon |-> 0]

CarAdd(type, amount, duration) ==
    /\ budget.adds > 0
    /\ budget' = [budget EXCEPT !.adds = @ - 1]
    /\ car' = CarManager_addSpeedModifier(car, type, amount, duration, now)
    /\ hist' = [hist EXCEPT !.op = "addSpeedModifier",
                            !.prevModifiers = car.speedModifiers]
    /\ UNCHANGED << now, mode, netVars, track, activeCheckpoints, processedCheckpoints, hookVars >>

CarUpdate ==
    /\ car' = updateCurrentSpeed(car, now)
    /\ hist' = [hist EXCEPT !.op = "updateCurrentSpeed",
                            !.prevModifiers = car.speedModifiers]
    /\ UNCHANGED << now, mode, netVars, track, activeCheckpoints, processedCheckpoints,
                    hookVars, budget >>

CarAdvance ==
    /\ now < MaxCarTime
    /\ now' = now + 1
    /\ hist' = [hist EXCEPT !.op = "advance"]
    /\ UNCHANGED << mode, netVars, track, car, activeCheckpoints, processedCheckpoints,
                    hookVars, budget >>

NextCar ==
    \/ \E type \in {"increase", "decrease"}, amount \in CarAmounts,
          duration \in CarDurations : CarAdd(type, amount, duration)
    \/ CarUpdate
    \/ CarAdvance

SpecCar == InitCar /\ [][NextCar]_vars

-----------------------------------------------------------------------------
(* Properties of CarManager (checked under SpecCar) *)

SumOfType(mods, type) ==
    SumSeq([i \in 1..Len(mods) |-> IF mods[i].type = type THEN mods[i].amount ELSE 0])

\* The speed has just been recomputed at `now` (addSpeedModifier ends with
\* updateCurrentSpeed).
JustRecomputed == hist.op \in {"addSpeedModifier", "updateCurrentSpeed"}

\* The modifiers held before the last call that are younger than their duration.
SurvivorsOfPrev ==
    SelectSeq(hist.prevModifiers, LAMBDA m : now - m.startTime < m.duration)

\* C8 (as claimed): currentSpeed is never negative, and after a recompute it is
\* exactly 0 whenever the summed decreases of the held modifiers exceed the base
\* speed plus the summed increases.
C8_NeverNegativeZeroWhenExceeded ==
    /\ car.currentSpeed >= 0
    /\ ( /\ JustRecomputed
         /\ SumOfType(car.speedModifiers, "decrease")
              > car.baseSpeed + SumOfType(car.speedModifiers, "increase") )
       => car.currentSpeed = 0

\* C9 (as claimed): after updateCurrentSpeed at time now, currentSpeed equals
\* max(0, baseSpeed + sum of increases - sum of decreases) over the modifiers
\* with now - startTime < duration, whatever the order they were added in.
C9_SpeedIsClampedSum ==
    hist.op = "updateCurrentSpeed" =>
        car.currentSpeed =
            Max(0, car.baseSpeed + SumOfType(SurvivorsOfPrev, "increase")
                                 - SumOfType(SurvivorsOfPrev, "decrease"))

\* C10: after updateCurrentSpeed at time now the collection holds exactly the
\* previously held modifiers whose age is strictly less than their duration, in
\* their order; a lone increase of duration d therefore counts at age d - 1 and
\* no longer counts at age d.
C10_ExpiredModifiersExcluded ==
    hist.op = "updateCurrentSpeed" =>
        /\ car.speedModifiers = SurvivorsOfPrev
        /\ \A i \in 1..Len(hist.prevModifiers) :
              LET m == hist.prevModifiers[i]
              IN  (now - m.startTime >= m.duration) =>
                    \A j \in 1..Len(car.speedModifiers) : car.speedModifiers[j] # m
        /\ ( Len(hist.prevModifiers) = 1 /\ hist.prevModifiers[1].type = "increase" ) =>
              LET m == hist.prevModifiers[1]
              IN  car.currentSpeed =
                    IF now - m.startTime <= m.duration - 1
                    THEN car.baseSpeed + m.amount ELSE car.baseSpeed

\* Witness of C10: one recompute that keeps a modifier of age d - 1 and drops
\* one of age exactly d.
C10_Witness ==
    /\ hist.op = "updateCurrentSpeed"
    /\ \E i \in 1..Len(hist.prevModifiers) :
          /\ now - hist.prevModifiers[i].startTime = hist.prevModifiers[i].duration - 1
          /\ \E j \in 1..Len(car.speedModifiers) :
                car.speedModifiers[j] = hist.prevModifiers[i]
    /\ \E i \in 1..Len(hist.prevModifiers) :
          /\ now - hist.prevModifiers[i].startTime = hist.prevModifiers[i].duration
          /\ \A j \in 1..Len(car.speedModifiers) :
                car.speedModifiers[j] # hist.prevModifiers[i]

-----------------------------------------------------------------------------
(* TrackManager driven alone: any sequence of checkBrakePoints,             *)
(* checkStraightPoints, getControlStates, deactivateControl and reset       *)
(* calls, with arbitrary car positions and a non-decreasing clock.          *)

MaxTrackTime == 3        \* the clock of the TrackManager bench stops here
MaxTrackResets == 1      \* reset() calls per run

BenchPositions == 0..3

InitTrack ==
    /\ InitWith("track", BenchTrack, CarManager_reset(BenchTrack.averageSpeed))
    /\ budget = [adds |-> 0, inputs |-> 0, lifecycle |-> MaxTrackResets, horizon |-> 0]

\* Count the event a check returned.
Record(fired, event) ==
    IF event = NoEvent THEN fired ELSE [fired EXCEPT ![KeyOf(event)] = @ + 1]

SetTM(tm) ==
    /\ activeCheckpoints' = tm.active
    /\ processedCheckpoints' = tm.processed

TrkCheckBrake(carDistance) ==
    LET r == checkBrakePoints(track, TM, carDistance, now)
    IN  /\ SetTM(r.tm)
        /\ hist' = [hist EXCEPT !.op = "checkBrakePoints",
                                !.fired = Record(@, r.event),
                                !.lastPos = carDistance,
                                !.lastEvent = r.event]
        /\ UNCHANGED << now, mode, netVars, track, car, hookVars, budget >>

TrkCheckStraight(carDistance) ==
    LET r == checkStraightPoints(track, TM, carDistance, now)
    IN  /\ SetTM(r.tm)
        /\ hist' = [hist EXCEPT !.op = "checkStraightPoints",
                                !.fired = Record(@, r.event),
                                !.lastPos = carDistance,
                                !.lastEvent = r.event]
        /\ UNCHANGED << now, mode, netVars, track, car, hookVars, budget >>

TrkGetControlStates ==
    /\ SetTM(getControlStates(TM, now).tm)
    /\ hist' = [hist EXCEPT !.op = "getControlStates"]
    /\ UNCHANGED << now, mode, netVars, track, car, hookVars, budget >>

TrkDeactivate(controlType) ==
    /\ SetTM(deactivateControl(TM, controlType))
    /\ hist' = [hist EXCEPT !.op = "deactivateControl"]
    /\ UNCHANGED << now, mode, netVars, track, car, hookVars, budget >>

TrkReset ==
    /\ budget.lifecycle > 0
    /\ budget' = [budget EXCEPT !.lifecycle = @ - 1]
    /\ SetTM(TrackManager_reset(TM))
    /\ hist' = [hist EXCEPT !.op = "reset",
                            !.fired = [k \in AllKeys(track) |-> 0]]
    /\ UNCHANGED << now, mode, netVars, track, car, hookVars >>

TrkAdvance ==
    /\ now < MaxTrackTime
    /\ now' = now + 1
    /\ hist' = [hist EXCEPT !.op = "advance"]
    /\ UNCHANGED << mode, netVars, track, car, activeCheckpoints, processedCheckpoints,
                    hookVars, budget >>

NextTrack ==
    \/ \E p \in BenchPositions : TrkCheckBrake(p)
    \/ \E p \in BenchPositions : TrkCheckStraight(p)
    \/ TrkGetControlStates
    \/ \E k \in ControlTypes : TrkDeactivate(k)
    \/ TrkReset
    \/ TrkAdvance

SpecTrack == InitTrack /\ [][NextTrack]_vars

-----------------------------------------------------------------------------
(* Properties of TrackManager (checked under SpecTrack) *)

\* C1: between two reset() calls every configured (kind, distance) trigger is
\* returned as a CheckpointEvent at most once, whatever the positions checked,
\* also after its window expired or was closed by deactivateControl.
C1_EachTriggerFiresAtMostOnce ==
    \A k \in AllKeys(track) : hist.fired[k] <= 1

\* Witness of C1: an arrival check at a position at or past a trigger that has
\* fired and is no longer active (expired and cleaned up, or deactivated)
\* returns no event.
C1_Witness ==
    /\ hist.op \in {"checkBrakePoints", "checkStraightPoints"}
    /\ hist.lastEvent = NoEvent
    /\ \E k \in AllKeys(track) :
          /\ (k.type = "brake_point") <=> (hist.op = "checkBrakePoints")
          /\ hist.lastPos >= k.distance
          /\ hist.fired[k] = 1
          /\ ~HasActive(TM, k)

-----------------------------------------------------------------------------
(* useGameState  (src/src/client/hooks/useGameState.ts)                     *)
(* A world w is [gameState, car, tm, timer, events]: the React state and    *)
(* the three objects the state updaters mutate; events collects what the    *)
(* arrival checks returned (read by the history variables only).            *)

World ==
    [gameState |-> gameState, car |-> car, tm |-> TM, timer |-> timer, events |-> << >>]

\* setGameState updater of updateCarPosition(deltaTime)
updateCarPosition(w, deltaTime, currentTime) ==
    IF w.gameState.gameStatus # "running" THEN w
    ELSE LET trk == w.gameState.track
             updatedCar ==
                 updateCurrentSpeed(updatePosition(w.car, deltaTime, trk.distance),
                                    currentTime)
             stopped == GameTimer_stop(w.timer, currentTime)
         IN  IF isRaceComplete(updatedCar, trk.distance)
             THEN [w EXCEPT !.car = updatedCar,
                            !.timer = stopped,
                            !.gameState.car = updatedCar,
                            !.gameState.gameStatus = "finished",
                            !.gameState.track.raceTime =
                                getCurrentTime(stopped, currentTime)]
             ELSE [w EXCEPT !.car = updatedCar, !.gameState.car = updatedCar]

\* setGameState updater of updateSpeedModifiers()
updateSpeedModifiers(w, currentTime) ==
    IF w.gameState.gameStatus # "running" THEN w
    ELSE LET updatedCar == updateCurrentSpeed(w.car, currentTime)
         IN  [w EXCEPT !.car = updatedCar, !.gameState.car = updatedCar]

ControlChanged(new, old) ==
    new.isActive # old.isActive \/ new.activatedAt # old.activatedAt

\* setGameState updater of updateControlStates()
updateControlStates(trk, w, currentTime) ==
    IF w.gameState.gameStatus # "running" THEN w
    ELSE LET pos == w.gameState.car.distanceCovered
             b == checkBrakePoints(trk, w.tm, pos, currentTime)
             st == checkStraightPoints(trk, b.tm, pos, currentTime)
             cs == getControlStates(st.tm, currentTime)
             old == w.gameState.activeControls
             publish ==
                 \/ ControlChanged(cs.states.brake, old.brake)
                 \/ ControlChanged(cs.states.acceleration, old.acceleration)
                 \/ b.event # NoEvent
                 \/ st.event # NoEvent
         IN  [w EXCEPT !.tm = cs.tm,
                       !.events = << b.event, st.event >>,
                       !.gameState.activeControls =
                           IF publish THEN cs.states ELSE @]

\* Mutant of speedBonus: the tier boundaries are exclusive.
speedBonus_Exclusive(speedIncrease, reactionTime) ==
    IF reactionTime < PerfectReactionMs THEN (speedIncrease * 15) \div 10
    ELSE IF reactionTime < GoodReactionMs THEN (speedIncrease * 12) \div 10
    ELSE speedIncrease

\* speedBonus: speedIncrease, x 1.5 within 200 ms, x 1.2 within 500 ms
speedBonus(speedIncrease, reactionTime) ==
    IF reactionTime <= PerfectReactionMs THEN (speedIncrease * 15) \div 10
    ELSE IF reactionTime <= GoodReactionMs THEN (speedIncrease * 12) \div 10
    ELSE speedIncrease

\* The green branch of handleControlInput's updater.
GreenInput(w, controlType, currentTime) ==
    LET remainingDuration == getRemainingDuration(w.tm, controlType, currentTime)
        reactionTime ==
            currentTime - w.gameState.activeControls[controlType].activatedAt
        bonus == speedBonus(w.gameState.track.speedIncrease, reactionTime)
        preciseRemainingDuration == Max(0, remainingDuration)
        updatedCar ==
            CarManager_addSpeedModifier(w.car, "increase", bonus,
                                        preciseRemainingDuration, currentTime)
        cs == getControlStates(deactivateControl(w.tm, controlType), currentTime)
    IN  [w EXCEPT !.car = updatedCar,
                  !.tm = cs.tm,
                  !.gameState.car = updatedCar,
                  !.gameState.activeControls = cs.states]

\* Mutant of RedInput: the penalty lasts for the remaining window of the kind.
RedInput_RemainingWindow(w, controlType, currentTime) ==
    LET updatedCar ==
            CarManager_addSpeedModifier(w.car, "decrease",
                                        w.gameState.track.speedDecrease,
                                        getRemainingDuration(w.tm, controlType, currentTime),
                                        currentTime)
    IN  [w EXCEPT !.car = updatedCar, !.gameState.car = updatedCar]

\* Mutant of RedInput: a penalty takes the whole base speed.
RedInput_Standstill(w, controlType, currentTime) ==
    LET updatedCar ==
            CarManager_addSpeedModifier(w.car, "decrease", w.car.baseSpeed,
                                        PenaltyDurationMs, currentTime)
    IN  [w EXCEPT !.car = updatedCar, !.gameState.car = updatedCar]

\* The red branch, when no penalty of the kind is flagged.
RedInput(w, controlType, currentTime) ==
    LET updatedCar ==
            CarManager_addSpeedModifier(w.car, "decrease",
                                        w.gameState.track.speedDecrease,
                                        PenaltyDurationMs, currentTime)
    IN  [w EXCEPT !.car = updatedCar, !.gameState.car = updatedCar]

\* Mutant of InputOutcome: no cooldown test.
InputOutcome_NoCooldown(controlType, currentTime) ==
    IF gameState.gameStatus # "running" THEN "notRunning"
    ELSE IF isControlActive(TM, controlType, currentTime) THEN "boost"
    ELSE IF controlType \notin activePenalties THEN "penalty"
    ELSE "suppressed"

\* Mutant of InputOutcome: no test of the race status.
InputOutcome_AnyStatus(controlType, currentTime) ==
    IF currentTime - inputCooldown[controlType] < InputCooldownMs THEN "cooldown"
    ELSE IF isControlActive(TM, controlType, currentTime) THEN "boost"
    ELSE IF controlType \notin activePenalties THEN "penalty"
    ELSE "suppressed"

\* What a handleControlInput(controlType) call at currentTime comes to.
InputOutcome(controlType, currentTime) ==
    IF currentTime - inputCooldown[controlType] < InputCooldownMs THEN "cooldown"
    ELSE IF gameState.gameStatus # "running" THEN "notRunning"
    ELSE IF isControlActive(TM, controlType, currentTime) THEN "boost"
    ELSE IF controlType \notin activePenalties THEN "penalty"
    ELSE "suppressed"

SetWorld(w) ==
    /\ gameState' = w.gameState
    /\ car' = w.car
    /\ SetTM(w.tm)
    /\ timer' = w.timer

\* The history after TrackManager.reset() / a new race.
HistNewRace(h, name) ==
    [h EXCEPT !.op = name,
              !.races = @ + 1,
              !.deltaSum = 0,
              !.fired = [k \in AllKeys(track) |-> 0],
              !.boosts = [k \in ControlTypes |-> 0],
              !.reacted = [k \in ControlTypes |-> FALSE],
              !.windowEnd = [k \in ControlTypes |-> NoTime],
              !.penaltyAt = [k \in ControlTypes |-> NoTime]]

\* The body of startRace().
StartRaceBody(name) ==
    LET initialState == createInitialGameState(track)
    IN  /\ timer' = GameTimer_start(GameTimer_reset(timer), now)
        /\ car' = CarManager_reset(initialState.car.baseSpeed)
        /\ SetTM(TrackManager_reset(TM))
        /\ inputCooldown' = [brake |-> 0, acceleration |-> 0]
        /\ activePenalties' = {}
        /\ gameState' = [initialState EXCEPT !.gameStatus = "running",
                                             !.raceStartTime = now]
        /\ hist' = HistNewRace(hist, name)
        \* the frame requested by a loop that keeps running stays due; a loop
        \* that starts now gets its first frame after the next clock step
        /\ frameDue' = (frameDue /\ gameState.gameStatus = "running")

\* Mutant of resetGame(): the start timestamp of the previous race is kept.
ResetGameBody_KeepsStartTime(name) ==
    /\ timer' = GameTimer_reset(timer)
    /\ frameDue' = FALSE
    /\ car' = CarManager_reset(createInitialGameState(track).car.baseSpeed)
    /\ SetTM(TrackManager_reset(TM))
    /\ inputCooldown' = [brake |-> 0, acceleration |-> 0]
    /\ activePenalties' = {}
    /\ gameState' = [createInitialGameState(track) EXCEPT
                        !.raceStartTime = gameState.raceStartTime]
    /\ hist' = HistNewRace(hist, name)

\* The body of resetGame().
ResetGameBody(name) ==
    /\ timer' = GameTimer_reset(timer)
    /\ frameDue' = FALSE                      \* cancelAnimationFrame
    /\ car' = CarManager_reset(createInitialGameState(track).car.baseSpeed)
    /\ SetTM(TrackManager_reset(TM))
    /\ inputCooldown' = [brake |-> 0, acceleration |-> 0]
    /\ activePenalties' = {}
    /\ gameState' = createInitialGameState(track)
    /\ hist' = HistNewRace(hist, name)

\* A command of the user is taken after the frame that is due at this instant.
UseLifecycle ==
    /\ ~frameDue
    /\ budget.lifecycle > 0
    /\ budget' = [budget EXCEPT !.lifecycle = @ - 1]

StartRace ==
    /\ UseLifecycle
    /\ StartRaceBody("startRace")
    /\ UNCHANGED << now, mode, netVars, track, timeouts, pendingStarts >>

StopRace ==
    /\ UseLifecycle
    /\ timer' = GameTimer_stop(timer, now)
    /\ gameState' = [gameState EXCEPT !.gameStatus = "finished",
                                      !.track.raceTime = getCurrentTime(timer', now)]
    /\ frameDue' = FALSE                      \* the loop effect's cleanup
    /\ hist' = [hist EXCEPT !.op = "stopRace"]
    /\ UNCHANGED << now, mode, netVars, track, car, activeCheckpoints, processedCheckpoints,
                    inputCooldown, activePenalties, timeouts, pendingStarts >>

ResetGame ==
    /\ UseLifecycle
    /\ ResetGameBody("resetGame")
    /\ UNCHANGED << now, mode, netVars, track, timeouts, pendingStarts >>

\* restartRace(): resetGame(), then setTimeout(() => startRace(), 0)
RestartRace ==
    /\ UseLifecycle
    /\ ResetGameBody("restartRace")
    /\ pendingStarts' = pendingStarts + 1
    /\ UNCHANGED << now, mode, netVars, track, timeouts >>

\* The setTimeout(() => startRace(), 0) callback.
StartTimeout ==
    /\ pendingStarts > 0
    /\ pendingStarts' = pendingStarts - 1
    /\ StartRaceBody("startRace")
    /\ UNCHANGED << now, mode, netVars, track, timeouts, budget >>

\* The setTimeout(() => activePenaltiesRef.current.delete(controlType), 1000)
\* callback.
PenaltyTimeout(i) ==
    /\ i \in 1..Len(timeouts)
    /\ timeouts[i].due <= now
    /\ timeouts' = SubSeq(timeouts, 1, i - 1) \o SubSeq(timeouts, i + 1, Len(timeouts))
    /\ activePenalties' = activePenalties \ {timeouts[i].controlType}
    /\ hist' = [hist EXCEPT !.op = "penaltyTimeout"]
    /\ UNCHANGED << now, mode, netVars, track, timer, car, activeCheckpoints,
                    processedCheckpoints, gameState, inputCooldown, pendingStarts,
                    frameDue, budget >>

UnexpiredOfKind(tm, controlType, currentTime) ==
    SelectSeq(tm.active,
              LAMBDA cp : /\ cp.type = CheckpointType(controlType)
                          /\ currentTime - cp.activatedAt < cp.duration)

\* handleControlInput(controlType), called `late` ms after the last frame
\* (late is 0 or JitterMs; an input arrives at most once off the frame grid
\* between two frames).  The call is the whole handler: the cooldown test
\* and the state updater.
ControlInputEffect(controlType, late) ==
    \E currentTime \in {now + late} :
    \E outcome \in {InputOutcome(controlType, currentTime)} :
    \E w \in {IF outcome = "boost" THEN GreenInput(World, controlType, currentTime)
              ELSE IF outcome = "penalty" THEN RedInput(World, controlType, currentTime)
              ELSE World} :
    \E accepted \in {outcome \in {"boost", "penalty"}} :
        /\ ~frameDue
        /\ late > 0 => now % Quantum = 0
        /\ now' = currentTime
        /\ SetWorld(w)
        /\ inputCooldown' =
              IF accepted THEN [inputCooldown EXCEPT ![controlType] = currentTime]
              ELSE inputCooldown
        /\ activePenalties' =
              IF outcome = "penalty" THEN activePenalties \cup {controlType}
              ELSE activePenalties
        /\ timeouts' =
              IF outcome = "penalty"
              THEN Append(timeouts, [controlType |-> controlType,
                                     due |-> currentTime + PenaltyFlagMs])
              ELSE timeouts
        /\ UNCHANGED << mode, netVars, track, pendingStarts, frameDue >>

\* The record of a call: its outcome and what it saw.
ControlInput(controlType, late) ==
    \E currentTime \in {now + late} :
    \E outcome \in {InputOutcome(controlType, currentTime)} :
    \E accepted \in {outcome \in {"boost", "penalty"}} :
        /\ ControlInputEffect(controlType, late)
        /\ hist' =
              [hist EXCEPT
                 !.op = "handleControlInput",
                 !.prevModifiers = car.speedModifiers,
                 !.lastInput =
                     [controlType |-> controlType, outcome |-> outcome, at |-> currentTime,
                      triggers |-> UnexpiredOfKind(TM, controlType, currentTime),
                      prevAccepted |-> hist.acceptedAt[controlType],
                      prevSameRace |-> hist.acceptedRace[controlType] = hist.races,
                      prevPenalty |-> hist.penaltyAt[controlType]],
                 !.boosts[controlType] = IF outcome = "boost" THEN @ + 1 ELSE @,
                 !.reacted[controlType] = IF outcome = "boost" THEN TRUE ELSE @,
                 !.windowEnd[controlType] =
                     IF outcome = "boost"
                     THEN LET cp == UnexpiredOfKind(TM, controlType, currentTime)[1]
                          IN  cp.activatedAt + cp.duration
                     ELSE @,
                 !.penaltyAt[controlType] = IF outcome = "penalty" THEN currentTime ELSE @,
                 !.acceptedAt[controlType] = IF accepted THEN currentTime ELSE @,
                 !.acceptedRace[controlType] = IF accepted THEN hist.races ELSE @]

\* A call of handleControlInput, counted against the inputs of the run.
HandleControlInput(controlType, late) ==
    /\ budget.inputs > 0
    /\ budget' = [budget EXCEPT !.inputs = @ - 1]
    /\ ControlInput(controlType, late)

FiredNow(events, controlType) ==
    \E i \in 1..Len(events) :
        /\ events[i] # NoEvent
        /\ events[i].type = CheckpointType(controlType)

\* One animation frame: gameLoop().
GameLoop ==
    \E d \in {getDeltaTime(timer, now)} :
    \E w0 \in {[World EXCEPT !.timer = d.timer]} :
    \E w1 \in {updateCarPosition(w0, d.delta, now)} :
    \E w2 \in {updateSpeedModifiers(w1, now)} :
    \E w3 \in {updateControlStates(track, w2, now)} :
        /\ frameDue
        /\ gameState.gameStatus = "running"
        /\ frameDue' = FALSE
        /\ SetWorld(w3)
        /\ hist' =
              [hist EXCEPT
                 !.op = "gameLoop",
                 !.deltaSum = @ + d.delta,
                 !.prevModifiers = car.speedModifiers,
                 !.fired = IF w3.events = << >> THEN @
                           ELSE Record(Record(@, w3.events[1]), w3.events[2]),
                 !.reacted = [k \in ControlTypes |-> @[k] /\ ~FiredNow(w3.events, k)]]
        /\ UNCHANGED << now, mode, netVars, track, inputCooldown, activePenalties, timeouts,
                        pendingStarts, budget >>

\* The clock moves on to the next frame.  Callbacks that are due run first:
\* the frame of a running loop, zero-delay timeouts, and penalty timeouts
\* whose delay has elapsed.  Before the first race nothing stored depends on
\* the clock, so the first command is taken at the mount time.
NextFrameTime == (now \div Quantum + 1) * Quantum

AdvanceFrame ==
    /\ hist.races > 0
    /\ ~frameDue
    /\ pendingStarts = 0
    /\ \A i \in 1..Len(timeouts) : timeouts[i].due > now
    /\ NextFrameTime <= budget.horizon * Quantum
    /\ now' = NextFrameTime
    /\ frameDue' = (gameState.gameStatus = "running")
    /\ hist' = [hist EXCEPT !.op = "advance"]
    /\ UNCHANGED << mode, netVars, track, timer, car, activeCheckpoints, processedCheckpoints,
                    gameState, inputCooldown, activePenalties, timeouts,
                    pendingStarts, budget >>

InitHookOn(trk, inputs, lifecycle, horizon) ==
    /\ mode = "hook"
    /\ now = MountQuanta * Quantum
    /\ track = trk
    /\ timer = GameTimerInit
    /\ car = createInitialGameState(trk).car
    /\ activeCheckpoints = << >>
    /\ processedCheckpoints = {}
    /\ gameState = createInitialGameState(trk)
    /\ inputCooldown = [brake |-> 0, acceleration |-> 0]
    /\ activePenalties = {}
    /\ timeouts = << >>
    /\ pendingStarts = 0
    /\ frameDue = FALSE
    /\ NetInit
    /\ hist = HistInit(trk)
    /\ budget = [adds |-> 0, inputs |-> inputs, lifecycle |-> lifecycle,
                 horizon |-> horizon]

InitHook(inputs, lifecycle, horizon) == InitHookOn(ShortTrack, inputs, lifecycle, horizon)

\* Spec: the hook with all its commands.  The clock stops before any penalty
\* timeout falls due (NoTimeoutDue), so the timeout callback has no step here.
Init == InitHook(MaxInputs, MaxLifecycle, MaxQuanta)

Next ==
    \/ StartRace
    \/ StopRace
    \/ ResetGame
    \/ RestartRace
    \/ StartTimeout
    \/ \E k \in ControlTypes, late \in {0, JitterMs} : HandleControlInput(k, late)
    \/ GameLoop
    \/ AdvanceFrame

Spec == Init /\ [][Next]_vars

NoTimeoutDue == \A i \in 1..Len(timeouts) : timeouts[i].due > now

\* SpecRace: the race is started once and runs; no timeout falls due here
\* either.
InitRace == InitHook(MaxRaceInputs, 1, MaxRaceQuanta)

NextRace ==
    \/ StartRace
    \/ \E k \in ControlTypes, late \in {0, JitterMs} : HandleControlInput(k, late)
    \/ GameLoop
    \/ AdvanceFrame

SpecRace == InitRace /\ [][NextRace]_vars

\* SpecStale: races follow one another and penalty timeouts fall due.
InitStale == InitHook(MaxStaleInputs, MaxLifecycle, MaxStaleQuanta)

NextStale ==
    \/ StartRace
    \/ StopRace
    \/ ResetGame
    \/ RestartRace
    \/ StartTimeout
    \/ \E i \in 1..Len(timeouts) : PenaltyTimeout(i)
    \/ HandleControlInput("brake", 0)
    \/ GameLoop
    \/ AdvanceFrame

SpecStale == InitStale /\ [][NextStale]_vars

-----------------------------------------------------------------------------
(* Properties of handleControlInput                                         *)

LastInput == hist.lastInput
AfterInput(outcome) ==
    hist.op = "handleControlInput" /\ LastInput.outcome = outcome

\* The modifier the last call pushed, the trigger it reacted to, and the
\* reaction time measured against that trigger.
AddedModifier == car.speedModifiers[Len(car.speedModifiers)]
ReactedTrigger == LastInput.triggers[1]
Reaction == LastInput.at - ReactedTrigger.activatedAt

RECURSIVE SumFired(_)
SumFired(keys) ==
    IF keys = {} THEN 0
    ELSE LET k == CHOOSE x \in keys : TRUE
         IN  hist.fired[k] + SumFired(keys \ {k})

FiredOfKind(controlType) ==
    SumFired({k \in AllKeys(track) : k.type = CheckpointType(controlType)})

\* C2: a trigger is reacted to at most once.  Within a race the boosts
\* handleControlInput has added for a kind never outnumber the triggers of
\* that kind that have fired, and after a boost the kind's control is
\* inactive, in the TrackManager and in the published state, until another
\* trigger of the kind fires.
C2_TriggerReactedOnce ==
    \A kind \in ControlTypes :
        /\ hist.boosts[kind] <= FiredOfKind(kind)
        /\ hist.reacted[kind] =>
              /\ ~isControlActive(TM, kind, now)
              /\ ~gameState.activeControls[kind].isActive

\* Witness of C2: a second press of the kind, inside the window that was
\* reacted to, is taken as a red press.
C2_Witness ==
    \E kind \in ControlTypes :
        /\ AfterInput("penalty")
        /\ LastInput.controlType = kind
        /\ hist.reacted[kind]
        /\ LastInput.at < hist.windowEnd[kind]

\* C3 as stated: within one race, after a penalty of a kind at time t no
\* further penalty of that kind is applied before t + 1000 ms.
C3_OnePenaltyPerSecond ==
    (AfterInput("penalty") /\ LastInput.prevPenalty # NoTime)
        => LastInput.at >= LastInput.prevPenalty + PenaltyDurationMs

\* C4 as stated: an input less than 100 ms after the previous accepted input
\* of its kind is ignored (whether or not a race was started in between).
C4_SpamIgnoredAsStated ==
    ( /\ hist.op = "handleControlInput"
      /\ LastInput.prevAccepted # NoTime
      /\ LastInput.at - LastInput.prevAccepted < InputCooldownMs )
        => LastInput.outcome = "cooldown"

CooldownZero == [brake |-> 0, acceleration |-> 0]

C4_Step ==
    LET in == hist'.lastInput
    IN  /\ ( /\ hist'.op = "handleControlInput"
             /\ in.prevAccepted # NoTime
             /\ in.prevSameRace
             /\ in.at - in.prevAccepted < InputCooldownMs )
            => /\ in.outcome = "cooldown"
               /\ UNCHANGED << gameState, car, activeCheckpoints, processedCheckpoints,
                               timer, inputCooldown, activePenalties, timeouts >>
        /\ inputCooldown' # inputCooldown
            => \/ /\ hist'.op = "handleControlInput"
                  /\ in.outcome \in {"boost", "penalty"}
                  /\ inputCooldown' = [inputCooldown EXCEPT ![in.controlType] = in.at]
               \/ /\ hist'.op \in {"startRace", "resetGame", "restartRace"}
                  /\ inputCooldown' = CooldownZero

\* C4, amended: within one race (no startRace or resetGame in between), an
\* input less than 100 ms after the previous accepted input of its kind is
\* ignored entirely: nothing of the game, the car, the TrackManager, the
\* timer, the cooldowns, the penalty flags or the pending timeouts changes.
\* A cooldown timestamp changes only when an input of its kind is accepted
\* (to that input's time) or when startRace / resetGame zero both.
C4_SpamIgnoredWithinRace == [][C4_Step]_vars

\* Witness of C4: an input 1..99 ms after an accepted input of its kind and
\* race has been ignored.
C4_Witness ==
    /\ AfterInput("cooldown")
    /\ LastInput.prevSameRace
    /\ LastInput.at - LastInput.prevAccepted > 0
    /\ LastInput.at - LastInput.prevAccepted < InputCooldownMs

\* C5: a green press adds an increase whose magnitude is speedIncrease x 1.5
\* for a reaction of at most 200 ms, x 1.2 for a reaction above 200 ms and at
\* most 500 ms, and x 1.0 above 500 ms; with the default speedIncrease these
\* are 22.5, 18 and 15 m/s.
C5_BonusSchedule ==
    AfterInput("boost") =>
        /\ Len(LastInput.triggers) = 1
        /\ AddedModifier.type = "increase"
        /\ AddedModifier.startTime = LastInput.at
        /\ Reaction <= 200 => 10 * AddedModifier.amount = 15 * track.speedIncrease
        /\ (Reaction > 200 /\ Reaction <= 500)
              => 10 * AddedModifier.amount = 12 * track.speedIncrease
        /\ Reaction > 500 => AddedModifier.amount = track.speedIncrease
        /\ \A r \in {0, 200, 201, 500, 501, 2000} :
              speedBonus(DEFAULT_GAME_CONFIG.speedIncrease, r) =
                  IF r <= 200 THEN 225 ELSE IF r <= 500 THEN 180 ELSE 150

\* Witness of C5: a green press just past the first boundary earned x 1.2.
C5_Witness ==
    /\ AfterInput("boost")
    /\ Reaction = PerfectReactionMs + JitterMs
    /\ 10 * AddedModifier.amount = 12 * track.speedIncrease

\* C6: the boost of a green press lasts for what is left of the reacted
\* trigger's window: pointDuration - (input time - activatedAt), more than 0
\* and at most pointDuration, so that it ends when the window would have
\* ended; a 50 ms reaction on a 2000 ms window leaves 1950 ms.
C6_BoostLastsRemainingWindow ==
    AfterInput("boost") =>
        /\ AddedModifier.duration = track.pointDuration - Reaction
        /\ AddedModifier.duration > 0
        /\ AddedModifier.duration <= track.pointDuration
        /\ AddedModifier.startTime + AddedModifier.duration =
              ReactedTrigger.activatedAt + ReactedTrigger.duration
        /\ LET cp == [type |-> "straight_point", distance |-> Metres(100),
                      activatedAt |-> 2000, duration |-> 2000]
           IN  getRemainingDuration([active |-> << cp >>, processed |-> {}],
                                    "acceleration", 2050) = 1950

\* Witness of C6: a late green press got a boost shorter than the window.
C6_Witness ==
    /\ AfterInput("boost")
    /\ Reaction = GoodReactionMs + JitterMs
    /\ AddedModifier.duration = track.pointDuration - GoodReactionMs - JitterMs

C7_Step ==
    LET in == hist'.lastInput
        kind == in.controlType
        kept == SelectSeq(car.speedModifiers,
                          LAMBDA m : in.at - m.startTime < m.duration)
    IN  ( /\ hist'.op = "handleControlInput"
          /\ gameState.gameStatus = "running"
          /\ in.at - inputCooldown[kind] >= InputCooldownMs
          /\ UnexpiredOfKind(TM, kind, in.at) = << >>
          /\ kind \notin activePenalties )
        => /\ car'.speedModifiers =
                Append(kept, [type |-> "decrease", amount |-> track.speedDecrease,
                              startTime |-> in.at, duration |-> 1000])
           /\ gameState'.car = car'
           /\ UNCHANGED << activeCheckpoints, processedCheckpoints >>
           /\ gameState'.activeControls = gameState.activeControls

\* C7: an accepted input of a kind with no open trigger and no penalty flag
\* of that kind adds exactly one decrease of speedDecrease lasting 1000 ms
\* to the unexpired modifiers, and leaves the active and the consumed
\* triggers and the published control states as they were.
C7_RedPressPenalty == [][C7_Step]_vars

\* Witness of C7: a red press was penalised while a window of the other
\* kind was open; that window is still there.
C7_Witness ==
    /\ AfterInput("penalty")
    /\ AddedModifier.type = "decrease"
    /\ AddedModifier.duration = PenaltyDurationMs
    /\ \E i \in 1..Len(activeCheckpoints) :
          /\ activeCheckpoints[i].type # CheckpointType(LastInput.controlType)
          /\ LastInput.at - activeCheckpoints[i].activatedAt < activeCheckpoints[i].duration

-----------------------------------------------------------------------------
(* CarManager.updatePosition driven directly (SpecDrive): a car whose speed  *)
(* is changed by modifiers is moved by arbitrary non-negative deltas.        *)

MaxDriveAdds == 1        \* addSpeedModifier calls per run

DriveTrack == [BenchTrack EXCEPT !.distance = 12]
DriveDeltas == {0, 1, 2, 100}

InitDrive ==
    /\ \E b \in CarBaseSpeeds :
          InitWith("drive", DriveTrack, CarManager_reset(b))
    /\ budget = [adds |-> MaxDriveAdds, inputs |-> 0, lifecycle |-> 0, horizon |-> 0]

CarMove(deltaTime) ==
    /\ car' = updatePosition(car, deltaTime, track.distance)
    /\ hist' = [hist EXCEPT !.op = "updatePosition",
                            !.arg = deltaTime,
                            !.lastPos = car.distanceCovered]
    /\ UNCHANGED << now, mode, netVars, track, activeCheckpoints, processedCheckpoints,
                    hookVars, budget >>

NextDrive ==
    \/ \E type \in {"increase", "decrease"}, amount \in CarAmounts,
          duration \in CarDurations : CarAdd(type, amount, duration)
    \/ CarUpdate
    \/ CarAdvance
    \/ \E deltaTime \in DriveDeltas : CarMove(deltaTime)

SpecDrive == InitDrive /\ [][NextDrive]_vars

-----------------------------------------------------------------------------
(* SpecFinish: short races that run to the finish line, with every command   *)
(* of the hook and inputs on the frame grid.  The clock stops before any     *)
(* penalty timeout falls due.                                                *)

MaxFinishQuanta == 9
MaxFinishInputs == 2
MaxFinishLifecycle == 2

\* 20 m at 50 m/s: four frames without input.
SprintTrack ==
    [distance |-> Metres(20), averageSpeed |-> MPS(50),
     brakePoints |-> << Metres(10) >>, straightPoints |-> << Metres(5) >>,
     speedIncrease |-> MPS(2), pointDuration |-> 700, speedDecrease |-> MPS(10)]

\* A gameLoop callback that runs although the race has finished: the frame
\* requested by the last tick, when it fires before the loop effect's
\* cleanup has cancelled it.
LateFrame ==
    \E d \in {getDeltaTime(timer, now)} :
    \E w0 \in {[World EXCEPT !.timer = d.timer]} :
    \E w1 \in {updateCarPosition(w0, d.delta, now)} :
    \E w2 \in {updateSpeedModifiers(w1, now)} :
    \E w3 \in {updateControlStates(track, w2, now)} :
        /\ gameState.gameStatus = "finished"
        /\ hist.op = "advance"
        /\ SetWorld(w3)
        /\ hist' = [hist EXCEPT !.op = "lateFrame", !.deltaSum = @ + d.delta]
        /\ UNCHANGED << now, mode, netVars, track, inputCooldown, activePenalties, timeouts,
                        pendingStarts, frameDue, budget >>

InitFinish == InitHookOn(SprintTrack, MaxFinishInputs, MaxFinishLifecycle, MaxFinishQuanta)

NextFinish ==
    \/ StartRace
    \/ StopRace
    \/ ResetGame
    \/ RestartRace
    \/ StartTimeout
    \/ \E k \in ControlTypes : HandleControlInput(k, 0)
    \/ GameLoop
    \/ LateFrame
    \/ AdvanceFrame

SpecFinish == InitFinish /\ [][NextFinish]_vars

-----------------------------------------------------------------------------
(* SpecDefault: one race on the default track without any player input.  The *)
(* frames come 30, 70 or 100 ms apart.                                       *)

MaxDefaultMs == 20300

TickGaps == {30, 70, MaxDeltaMs}

\* The clock moves on to the next animation frame of the running loop.
AdvanceGap(gap) ==
    /\ gameState.gameStatus = "running"
    /\ ~frameDue
    /\ now + gap - gameState.raceStartTime <= MaxDefaultMs
    /\ now' = now + gap
    /\ frameDue' = TRUE
    /\ hist' = [hist EXCEPT !.op = "advance", !.arg = gap]
    /\ UNCHANGED << mode, netVars, track, timer, car, activeCheckpoints, processedCheckpoints,
                    gameState, inputCooldown, activePenalties, timeouts,
                    pendingStarts, budget >>

InitDefault == InitHookOn(DEFAULT_GAME_CONFIG, 0, 1, 0)

NextDefault ==
    \/ StartRace
    \/ \E gap \in TickGaps : AdvanceGap(gap)
    \/ GameLoop

SpecDefault == InitDefault /\ [][NextDefault]_vars

-----------------------------------------------------------------------------
(* SpecLive: one race with the speeds, amounts and durations of the default  *)
(* configuration on its first MaxLiveMetres metres, with any number of       *)
(* player inputs on the frame grid.  Frames keep coming and due timeouts     *)
(* fire: requestAnimationFrame and setTimeout callbacks are always run.      *)

MaxLiveMetres == 60
MaxLiveQuanta == 25

Below(points, distance) == SelectSeq(points, LAMBDA p : p < distance)

LiveTrack ==
    [DEFAULT_GAME_CONFIG EXCEPT
        !.distance = Metres(MaxLiveMetres),
        !.brakePoints = Below(@, Metres(MaxLiveMetres)),
        !.straightPoints = Below(@, Metres(MaxLiveMetres))]

\* A call of handleControlInput at any time, as often as the player likes.
LiveControlInput(controlType) ==
    /\ ControlInputEffect(controlType, 0)
    /\ UNCHANGED << budget, hist >>

InitLive == InitHookOn(LiveTrack, 0, 1, MaxLiveQuanta)

FirePenaltyTimeout == \E i \in 1..Len(timeouts) : PenaltyTimeout(i)

NextLive ==
    \/ StartRace
    \/ \E k \in ControlTypes : LiveControlInput(k)
    \/ FirePenaltyTimeout
    \/ GameLoop
    \/ AdvanceFrame

SpecLive ==
    /\ InitLive
    /\ [][NextLive]_vars
    /\ WF_vars(AdvanceFrame)
    /\ WF_vars(GameLoop)
    /\ WF_vars(FirePenaltyTimeout)

-----------------------------------------------------------------------------
(* SpecConfig: the hook constructed with a configuration that is not well    *)
(* formed.  useGameState(config) and startRace() take the configuration as   *)
(* it is: neither calls validateGameConfig or validateTrack.                 *)

MaxConfigQuanta == 6

MalformedTracks ==
    { [ShortTrack EXCEPT !.distance = 0],
      [ShortTrack EXCEPT !.averageSpeed = 0],
      [ShortTrack EXCEPT !.speedIncrease = 0],
      [ShortTrack EXCEPT !.speedDecrease = 0],
      [ShortTrack EXCEPT !.pointDuration = 0],
      [ShortTrack EXCEPT !.brakePoints = << >>],
      [ShortTrack EXCEPT !.straightPoints = << >>],
      [ShortTrack EXCEPT !.brakePoints = << Metres(50), Metres(10) >>],
      [ShortTrack EXCEPT !.straightPoints = << Metres(5), Metres(5) >>],
      [ShortTrack EXCEPT !.brakePoints = << Metres(10), Metres(60) >>] }

InitConfig == \E config \in MalformedTracks : InitHookOn(config, 1, 1, MaxConfigQuanta)

SpecConfig == InitConfig /\ [][NextRace]_vars

-----------------------------------------------------------------------------
(* Properties of the race lifecycle                                          *)

C12_Step ==
    (gameState'.gameStatus = "finished" /\ gameState.gameStatus # "finished")
        => /\ gameState.gameStatus = "running"
           /\ gameState'.car.distanceCovered >= gameState'.track.distance

\* C12 as stated: whatever the hook's commands, inputs and ticks, the status
\* becomes finished only from running and only when the distance covered has
\* reached the track distance.
C12_FinishedOnlyAtTheEnd == [][C12_Step]_vars


\* C13: while the status stays finished the timer is stopped and no step (a
\* late tick, a player input, a further stopRace) changes the recorded race
\* time, the car (position, current speed, modifiers), the control states or
\* the active and consumed triggers.
C13_Step ==
    (gameState.gameStatus = "finished" /\ gameState'.gameStatus = "finished") =>
        /\ ~timer.isRunning /\ ~timer'.isRunning
        /\ getCurrentTime(timer', now') = getCurrentTime(timer, now)
        /\ gameState'.track.raceTime = gameState.track.raceTime
        /\ car' = car
        /\ gameState'.car = gameState.car
        /\ gameState'.activeControls = gameState.activeControls
        /\ activeCheckpoints' = activeCheckpoints
        /\ processedCheckpoints' = processedCheckpoints

C13_FinishedRaceIsFrozen == [][C13_Step]_vars

\* A race finished by a tick at the end of the track, then a press while a
\* trigger of that kind is still in its window.
C13_Witness ==
    /\ gameState.gameStatus = "finished"
    /\ gameState.car.distanceCovered = track.distance
    /\ gameState.track.raceTime > 0
    /\ hist.op = "handleControlInput"
    /\ LastInput.outcome = "notRunning"
    /\ LastInput.triggers # << >>

\* C14: on the default track (1000 m at 50 m/s), without input and with
\* frames at most 100 ms apart, a tick finishes the race exactly when the
\* elapsed time has reached 20000 ms; the car is then at exactly 1000 m, the
\* recorded race time is the elapsed time, at least 20000 ms and less than
\* 20000 ms plus the gap of that tick, and the race stays finished.
C14_Step ==
    /\ gameState.gameStatus = "finished" => gameState'.gameStatus = "finished"
    /\ (gameState.gameStatus = "running" /\ hist'.op = "gameLoop") =>
          LET elapsed == now' - gameState.raceStartTime
              gap == now' - timer.lastFrameTime
          IN  /\ gap <= 100
              /\ gameState'.gameStatus = "finished" <=> elapsed >= 20000
              /\ gameState'.gameStatus = "running" <=> elapsed < 20000
              /\ gameState'.gameStatus = "finished" =>
                    /\ gameState'.car.distanceCovered = Metres(1000)
                    /\ gameState'.track.raceTime = elapsed
                    /\ gameState'.track.raceTime < 20000 + gap
              /\ gameState'.gameStatus = "running" =>
                    /\ gameState'.car.distanceCovered < Metres(1000)
                    /\ gameState'.track.raceTime = Null

C14_DefaultRaceTakesTwentySeconds == [][C14_Step]_vars

\* The finishing tick came after the 20000th millisecond: the clamp acted.
C14_Witness ==
    /\ hist.op = "gameLoop"
    /\ gameState.gameStatus = "finished"
    /\ gameState.track.raceTime > 20000
    /\ gameState.car.distanceCovered = track.distance

FreshRace(g, c, tm, t, cooldown, penalties, currentTime) ==
    /\ g.gameStatus = "running"
    /\ c.distanceCovered = 0
    /\ c.currentSpeed = c.baseSpeed /\ c.baseSpeed = g.track.averageSpeed
    /\ c.speedModifiers = << >>
    /\ g.car = c
    /\ tm.active = << >> /\ tm.processed = {}
    /\ \A k \in ControlTypes : g.activeControls[k] = InactiveControl
    /\ t.isRunning /\ getCurrentTime(t, currentTime) = 0
    /\ \A k \in ControlTypes : cooldown[k] = 0
    /\ penalties = {}
    /\ g.track.raceTime = Null
    /\ g.raceStartTime = currentTime

\* A step of startRace(), called directly or by the timeout of restartRace().
StartedNow == hist'.op = "startRace" /\ hist'.races = hist.races + 1

FreshStep ==
    StartedNow =>
        FreshRace(gameState', car', [active |-> activeCheckpoints',
                                     processed |-> processedCheckpoints'],
                  timer', inputCooldown', activePenalties', now')

\* The listed fields alone: these are fresh after every start.
StartedRaceHasFreshState == [][FreshStep]_vars

\* C16: startRace, from any status and also as the second half of
\* restartRace, leaves a fresh running race (position 0, base speed, no
\* modifiers, no triggers, controls inactive, timer at zero, cooldowns zero,
\* no penalty flag, no race time, start time set) and nothing of the race
\* before it: no callback of that race is still pending.
C16_Step == StartedNow => (FreshStep /\ timeouts' = << >>)

C16_StartIsFresh == [][C16_Step]_vars

\* C17: a call of handleControlInput while the status is not running (idle,
\* finished, or idle between the two halves of a restart) changes nothing:
\* the car and its modifiers, the triggers, the published state, the
\* cooldown timestamps, the penalty flags and the pending timeouts are as
\* before.
C17_Step ==
    (hist'.op = "handleControlInput" /\ gameState.gameStatus # "running") =>
        /\ hist'.lastInput.outcome \in {"notRunning", "cooldown"}
        /\ car' = car
        /\ gameState' = gameState
        /\ activeCheckpoints' = activeCheckpoints
        /\ processedCheckpoints' = processedCheckpoints
        /\ inputCooldown' = inputCooldown
        /\ activePenalties' = activePenalties
        /\ timeouts' = timeouts
        /\ timer' = timer

C17_InputWhileNotRunningIsDiscarded == [][C17_Step]_vars

\* A press in the idle gap of a restart, after a race in which a penalty
\* had been flagged.
C17_Witness ==
    /\ AfterInput("notRunning")
    /\ gameState.gameStatus = "idle"
    /\ pendingStarts > 0
    /\ timeouts # << >>

\* The timeouts without the i-th.
WithoutTimeout(i) ==
    SubSeq(timeouts, 1, i - 1) \o SubSeq(timeouts, i + 1, Len(timeouts))

\* The i-th pending timeout was scheduled before the race that is running
\* now was started.
IsStale(i) ==
    /\ gameState.raceStartTime # Null
    /\ timeouts[i].due - PenaltyFlagMs < gameState.raceStartTime

\* C18: a penalty timeout that was scheduled during an earlier race changes
\* nothing of the race started after it; it removes no penalty flag of the
\* new race.
C18_Step ==
    \A i \in 1..Len(timeouts) :
        ( /\ hist'.op = "penaltyTimeout"
          /\ timeouts' = WithoutTimeout(i)
          /\ IsStale(i) )
            => activePenalties' = activePenalties

C18_NoStaleCallbackActs == [][C18_Step]_vars

\* What the claim calls a well-formed array of trigger points: not empty,
\* strictly ascending (so without duplicates), every point on the track.
WellFormedPoints(points, distance) ==
    /\ points # << >>
    /\ \A i \in 1..Len(points) : points[i] > 0 /\ points[i] < distance
    /\ \A i \in 1..(Len(points) - 1) : points[i] < points[i + 1]

WellFormed(config) ==
    /\ config.distance > 0
    /\ config.averageSpeed > 0
    /\ config.speedIncrease > 0
    /\ config.speedDecrease > 0
    /\ config.pointDuration > 0
    /\ WellFormedPoints(config.brakePoints, config.distance)
    /\ WellFormedPoints(config.straightPoints, config.distance)

\* C20: with a configuration that is not well formed the status stays idle.
C20_MalformedConfigNeverRuns ==
    ~WellFormed(track) => gameState.gameStatus = "idle"

-----------------------------------------------------------------------------
(* SpecCarAny: CarManager driven alone with magnitudes and durations that    *)
(* may be zero or negative.                                                  *)

AnyAmounts == {0 - 2, 0, 2}
AnyDurations == {0 - 1, 0, 2}

NextCarAny ==
    \/ \E type \in {"increase", "decrease"}, amount \in AnyAmounts,
          duration \in AnyDurations : CarAdd(type, amount, duration)
    \/ CarUpdate
    \/ CarAdvance

SpecCarAny == InitCar /\ [][NextCarAny]_vars

\* C21: addSpeedModifier with a magnitude or a duration that is zero or
\* negative leaves the modifiers and the current speed as they were.
C21_Step ==
    \A type \in {"increase", "decrease"}, amount \in AnyAmounts, duration \in AnyDurations :
        ((amount <= 0 \/ duration <= 0) /\ CarAdd(type, amount, duration)) =>
            /\ car'.speedModifiers = car.speedModifiers
            /\ car'.currentSpeed = car.currentSpeed

C21_InvalidModifierRejected == [][C21_Step]_vars

-----------------------------------------------------------------------------
(* SpecTimer: GameTimer driven alone, any sequence of start, stop, reset,    *)
(* getCurrentTime and getDeltaTime, with the clock moving on by 40 or 120 ms *)
(* between calls.  A tick is getDeltaTime followed by updatePosition, as in  *)
(* the game loop.                                                            *)

MaxTimerTime == 280
MaxTimerTicks == 2

TimerSteps == {40, 120}

TimerTrack == [BenchTrack EXCEPT !.distance = 2000]

TimerOther == << mode, netVars, track, activeCheckpoints, processedCheckpoints, gameState,
                 inputCooldown, activePenalties, timeouts, pendingStarts, frameDue >>

InitTimer ==
    /\ \E b \in CarBaseSpeeds : InitWith("timer", TimerTrack, CarManager_reset(b))
    /\ budget = [adds |-> MaxTimerTicks, inputs |-> 0, lifecycle |-> 0, horizon |-> 0]

TimerStart ==
    /\ timer' = GameTimer_start(timer, now)
    /\ hist' = [hist EXCEPT !.op = "start",
                            !.lastDeltaAt = IF timer.isRunning THEN @ ELSE now,
                            !.deltaSum = IF timer.isRunning THEN @ ELSE 0]
    /\ UNCHANGED << now, car, budget, TimerOther >>

TimerStop ==
    /\ timer' = GameTimer_stop(timer, now)
    /\ hist' = [hist EXCEPT !.op = "stop"]
    /\ UNCHANGED << now, car, budget, TimerOther >>

TimerReset ==
    /\ timer' = GameTimer_reset(timer)
    /\ hist' = [hist EXCEPT !.op = "reset", !.deltaSum = 0]
    /\ UNCHANGED << now, car, budget, TimerOther >>

TimerGetCurrentTime ==
    /\ hist' = [hist EXCEPT !.op = "getCurrentTime", !.arg = getCurrentTime(timer, now)]
    /\ UNCHANGED << now, timer, car, budget, TimerOther >>

TimerGetDeltaTime ==
    LET d == getDeltaTime(timer, now)
    IN  /\ timer' = d.timer
        /\ hist' = [hist EXCEPT !.op = "getDeltaTime", !.arg = d.delta, !.lastDeltaAt = now,
                                !.deltaSum = @ + d.delta]
        /\ UNCHANGED << now, car, budget, TimerOther >>

\* The head of gameLoop(): getDeltaTime(), then updatePosition(deltaTime).
TimerTick ==
    LET d == getDeltaTime(timer, now)
    IN  /\ budget.adds > 0
        /\ budget' = [budget EXCEPT !.adds = @ - 1]
        /\ timer' = d.timer
        /\ car' = updatePosition(car, d.delta, track.distance)
        /\ hist' = [hist EXCEPT !.op = "tick", !.arg = d.delta, !.lastDeltaAt = now,
                                !.deltaSum = @ + d.delta,
                                !.lastPos = car.distanceCovered]
        /\ UNCHANGED << now, TimerOther >>

TimerAdvance(step) ==
    /\ now + step <= MaxTimerTime
    /\ now' = now + step
    /\ hist' = [hist EXCEPT !.op = "advance"]
    /\ UNCHANGED << timer, car, budget, TimerOther >>

NextTimer ==
    \/ TimerStart
    \/ TimerStop
    \/ TimerReset
    \/ TimerGetCurrentTime
    \/ TimerGetDeltaTime
    \/ TimerTick
    \/ \E step \in TimerSteps : TimerAdvance(step)

SpecTimer == InitTimer /\ [][NextTimer]_vars

-----------------------------------------------------------------------------
(* Properties of GameTimer (checked under SpecTimer) *)

\* C22: while the timer runs getCurrentTime() never goes down from one call
\* to the next; from stop() until the next start() or reset() it returns the
\* elapsed time of the moment of stop(), and a second stop() changes nothing.
C22_Step ==
    /\ (timer.isRunning /\ timer'.isRunning /\ hist'.op \notin {"start", "reset"}) =>
          getCurrentTime(timer', now') >= getCurrentTime(timer, now)
    /\ (timer.isRunning /\ hist'.op = "stop") =>
          getCurrentTime(timer', now') = now - timer.startTime
    /\ (~timer.isRunning /\ hist'.op \notin {"start", "reset"}) =>
          /\ getCurrentTime(timer', now') = getCurrentTime(timer, now)
          /\ hist'.op = "getCurrentTime" => hist'.arg = getCurrentTime(timer, now)

C22_ElapsedMonotoneThenFrozen == [][C22_Step]_vars

\* getCurrentTime() called on a stopped timer, after the clock has moved on
\* since stop(): it returns the positive elapsed time of the stop.
C22_Witness ==
    /\ hist.op = "getCurrentTime"
    /\ ~timer.isRunning
    /\ now > timer.pausedTime
    /\ hist.arg > 0
    /\ hist.arg = timer.pausedTime - timer.startTime

\* C23: on a running timer getDeltaTime() returns the time since the call
\* before it (since start() for the first), capped at 100 ms and never
\* negative; on a timer that is not running it returns 0 and changes
\* nothing.  A tick therefore moves the car by at most currentSpeed x 0.1 s.
C23_Step ==
    /\ (hist'.op \in {"getDeltaTime", "tick"} /\ timer.isRunning) =>
          /\ hist'.arg = Min(now - hist.lastDeltaAt, 100)
          /\ hist'.arg >= 0
    /\ (hist'.op \in {"getDeltaTime", "tick"} /\ ~timer.isRunning) =>
          /\ hist'.arg = 0
          /\ timer' = timer
    /\ hist'.op = "tick" =>
          car'.distanceCovered - car.distanceCovered <= car.currentSpeed * 100

C23_DeltaSincePreviousCallCapped == [][C23_Step]_vars

\* A tick 120 ms after the call before it: the delta is 100 ms and the car
\* has moved by its speed times 100 ms.
C23_Witness ==
    /\ hist.op = "tick"
    /\ hist.arg = 100
    /\ car.distanceCovered = hist.lastPos + car.currentSpeed * 100
    /\ car.distanceCovered > hist.lastPos

\* C24: a second reset changes nothing.  For the three managers: reset of a
\* reset state is that state.  For the hook: the state resetGame() leaves
\* (also as the first half of restartRace()) is the state resetGame()
\* produces from it.
C24_Step ==
    /\ GameTimer_reset(GameTimer_reset(timer)) = GameTimer_reset(timer)
    /\ CarManager_reset(CarManager_reset(car.baseSpeed).baseSpeed) = CarManager_reset(car.baseSpeed)
    /\ TrackManager_reset(TrackManager_reset(TM)) = TrackManager_reset(TM)
    /\ hist'.op \in {"resetGame", "restartRace"} =>
          /\ GameTimer_reset(timer') = timer'
          /\ CarManager_reset(createInitialGameState(track).car.baseSpeed) = car'
          /\ TrackManager_reset([active |-> activeCheckpoints',
                                 processed |-> processedCheckpoints'])
                = [active |-> activeCheckpoints', processed |-> processedCheckpoints']
          /\ inputCooldown' = [brake |-> 0, acceleration |-> 0]
          /\ activePenalties' = {}
          /\ gameState' = createInitialGameState(track)
          /\ ~frameDue'

C24_ResetIsIdempotent == [][C24_Step]_vars

\* resetGame() after a race in which the player had won a boost.
C24_Witness ==
    /\ hist.op = "resetGame"
    /\ LastInput.outcome = "boost"
    /\ gameState.gameStatus = "idle"
    /\ car.speedModifiers = << >>
    /\ activeCheckpoints = << >>

\* C25: the distance a tick at time now adds is the tick's delta times the
\* speed recomputed at now, without any modifier whose age at now has
\* reached its duration.
C25_Step ==
    (hist'.op = "gameLoop" /\ gameState.gameStatus = "running") =>
        LET deltaTime == getDeltaTime(timer, now).delta
            recomputed == updateCurrentSpeed(car, now)
        IN  car'.distanceCovered
              = updatePosition(recomputed, deltaTime, track.distance).distanceCovered

C25_SpeedRecomputedBeforeAdvance == [][C25_Step]_vars

-----------------------------------------------------------------------------
(* Further properties of TrackManager (checked under SpecTrack) *)

TMNext == [active |-> activeCheckpoints', processed |-> processedCheckpoints']

\* Every trigger of the array that was pending before the call and lies at
\* or before carDistance is consumed and active after it, activated now.
AllReachedFired(points, type, carDistance) ==
    \A i \in 1..Len(points) :
        IsNewlyReached(TM, type, points[i], carDistance) =>
            /\ CheckpointKey(type, points[i]) \in processedCheckpoints'
            /\ \E j \in 1..Len(activeCheckpoints') :
                  /\ KeyOf(activeCheckpoints'[j]) = CheckpointKey(type, points[i])
                  /\ activeCheckpoints'[j].activatedAt = now

\* C26: one call of checkBrakePoints (checkStraightPoints) at position p
\* fires every brake (straight) trigger at or before p that was pending.
C26_Step ==
    /\ hist'.op = "checkBrakePoints" =>
          AllReachedFired(track.brakePoints, "brake_point", hist'.lastPos)
    /\ hist'.op = "checkStraightPoints" =>
          AllReachedFired(track.straightPoints, "straight_point", hist'.lastPos)

C26_AllReachedTriggersFire == [][C26_Step]_vars

\* C27: isControlActive(kind, now) is true exactly when the active set holds
\* a trigger of the kind that is younger than its duration.
C27_ActiveIffUnexpiredExists ==
    \A k \in ControlTypes :
        isControlActive(TM, k, now) <=> (UnexpiredOfKind(TM, k, now) # << >>)

\* The trigger with the earliest activation among a non-empty sequence.
Earliest(cps) ==
    cps[CHOOSE i \in 1..Len(cps) :
            \A j \in 1..Len(cps) :
                \/ cps[i].activatedAt < cps[j].activatedAt
                \/ (cps[i].activatedAt = cps[j].activatedAt /\ i <= j)]

\* C28: when two triggers of a kind are open at once, getControlStates,
\* isControlActive and getRemainingDuration all go by the one that was
\* activated first.
C28_EarlierTriggerRepresents ==
    \A k \in ControlTypes :
        LET open == UnexpiredOfKind(TM, k, now)
        IN  Len(open) >= 2 =>
              LET rep == Earliest(open)
                  st == getControlStates(TM, now).states[k]
              IN  /\ st.isActive
                  /\ st.activatedAt = rep.activatedAt
                  /\ st.duration = rep.duration
                  /\ isControlActive(TM, k, now)
                  /\ getRemainingDuration(TM, k, now)
                        = rep.duration - (now - rep.activatedAt)

-----------------------------------------------------------------------------
(* SpecOverlap: one whole race on the default track with frames on the grid. *)
(* The player reacts to any of the eight triggers, in the frame that opened  *)
(* its window or six frames later, or lets the window run out.               *)

MaxOverlapQuanta == 210
MaxOverlapInputs == 8

PressAfterQuanta == {0, 6}

\* A press while the control of the kind is green.
OverlapInput(controlType) ==
    /\ InputOutcome(controlType, now) = "boost"
    /\ \E i \in 1..Len(activeCheckpoints) :
          /\ activeCheckpoints[i].type = CheckpointType(controlType)
          /\ \E q \in PressAfterQuanta :
                now - activeCheckpoints[i].activatedAt = q * Quantum
    /\ HandleControlInput(controlType, 0)

InitOverlap == InitHookOn(DEFAULT_GAME_CONFIG, MaxOverlapInputs, 1, MaxOverlapQuanta)

NextOverlap ==
    \/ StartRace
    \/ \E k \in ControlTypes : OverlapInput(k)
    \/ GameLoop
    \/ AdvanceFrame

SpecOverlap == InitOverlap /\ [][NextOverlap]_vars

\* C29: on the default track at most one trigger of a kind is open (active
\* and younger than its duration) at any time.
C29_OneOpenTriggerPerKind ==
    \A k \in ControlTypes : Len(UnexpiredOfKind(TM, k, now)) <= 1

\* The car at its highest speed, two full boosts at once, with the brake
\* trigger at 400 m consumed and the straight trigger at 350 m behind it.
C29_Witness ==
    /\ gameState.gameStatus = "running"
    /\ car.currentSpeed = MPS(50) + 2 * ((3 * MPS(15)) \div 2)
    /\ CheckpointKey("brake_point", Metres(400)) \in processedCheckpoints

-----------------------------------------------------------------------------
(* deactivateControl (checked under SpecTrack) *)

OtherType(type) == IF type = "brake_point" THEN "straight_point" ELSE "brake_point"

\* C30: deactivateControl(kind) removes every active trigger of the kind and
\* nothing else: the active triggers of the other kind and the consumed set
\* stay as they are, and with no trigger of the kind active nothing changes.
C30_Step ==
    \A k \in ControlTypes :
        TrkDeactivate(k) =>
            LET type == CheckpointType(k)
            IN  /\ OfType(activeCheckpoints', type) = << >>
                /\ OfType(activeCheckpoints', OtherType(type))
                      = OfType(activeCheckpoints, OtherType(type))
                /\ Len(activeCheckpoints')
                      = Len(activeCheckpoints) - Len(OfType(activeCheckpoints, type))
                /\ processedCheckpoints' = processedCheckpoints
                /\ (OfType(activeCheckpoints, type) = << >>
                      => activeCheckpoints' = activeCheckpoints)

C30_DeactivateRemovesOnlyItsKind == [][C30_Step]_vars

\* Before any window could expire: the brake trigger at 1 is consumed and no
\* longer active, which only deactivateControl can do, and a straight trigger
\* is still active after the call.
C30_Witness ==
    /\ hist.op = "deactivateControl"
    /\ now = 0
    /\ CheckpointKey("brake_point", 1) \in processedCheckpoints
    /\ OfType(activeCheckpoints, "brake_point") = << >>
    /\ OfType(activeCheckpoints, "straight_point") # << >>

-----------------------------------------------------------------------------
(* Consistency of GameState (checked under Spec) *)

\* C31: a running GameState has a race start timestamp and an idle one has
\* none.
C31_StartTimeMatchesStatus ==
    /\ gameState.gameStatus = "running" => gameState.raceStartTime # Null
    /\ gameState.gameStatus = "idle" => gameState.raceStartTime = Null

\* Back to idle by resetGame() after a race had been started.
C31_Witness ==
    /\ hist.op = "resetGame"
    /\ hist.races >= 2
    /\ gameState.gameStatus = "idle"
    /\ gameState.raceStartTime = Null

-----------------------------------------------------------------------------
(* GameTimer resumed (checked under SpecTimer) *)

\* C32: start() on a timer stopped by stop() resumes: the elapsed time read
\* right after it is the frozen value read while stopped, neither less nor
\* increased by the time spent stopped.
C32_Step ==
    (hist'.op = "start" /\ ~timer.isRunning /\ timer.pausedTime > 0) =>
        getCurrentTime(timer', now') = getCurrentTime(timer, now)

C32_StartResumesFromFrozenValue == [][C32_Step]_vars

-----------------------------------------------------------------------------
(* validateTrack (gameValidation.ts) *)

RECURSIVE InsertSorted(_, _)
InsertSorted(x, s) ==
    IF s = << >> THEN << x >>
    ELSE IF x <= Head(s) THEN << x >> \o s
    ELSE << Head(s) >> \o InsertSorted(x, Tail(s))

\* [...points].sort((a, b) => a - b)
RECURSIVE SortAscending(_)
SortAscending(s) ==
    IF s = << >> THEN << >> ELSE InsertSorted(Head(s), SortAscending(Tail(s)))

arraysEqual(a, b) ==
    /\ Len(a) = Len(b)
    /\ \A i \in 1..Len(a) : a[i] = b[i]

OutOfBounds(points, distance) ==
    \E i \in 1..Len(points) : points[i] < 0 \/ points[i] >= distance

\* The message of the GameValidationError thrown, or "ok".
validateTrack(trk) ==
    IF trk.distance <= 0 THEN "Track distance must be positive"
    ELSE IF trk.averageSpeed <= 0 THEN "Average speed must be positive"
    ELSE IF trk.speedIncrease <= 0 THEN "Speed increase must be positive"
    ELSE IF trk.speedDecrease <= 0 THEN "Speed decrease must be positive"
    ELSE IF trk.pointDuration <= 0 THEN "Point duration must be positive"
    ELSE IF OutOfBounds(trk.brakePoints, trk.distance)
         THEN "Brake point is outside track bounds"
    ELSE IF OutOfBounds(trk.straightPoints, trk.distance)
         THEN "Straight point is outside track bounds"
    ELSE IF ~arraysEqual(trk.brakePoints, SortAscending(trk.brakePoints))
         THEN "Brake points must be sorted in ascending order"
    ELSE IF ~arraysEqual(trk.straightPoints, SortAscending(trk.straightPoints))
         THEN "Straight points must be sorted in ascending order"
    ELSE "ok"

(* SpecValidate: validateTrack called on one of a family of small tracks. *)

MaxValidateLen == 2

ValidateDistances == {0, 3}
ValidatePoints == {0 - 1, 0, 1, 2, 3}

PointArrays ==
    UNION {[1..n -> ValidatePoints] : n \in 0..MaxValidateLen}

\* All parameters positive, or exactly one of them zero.
ValidateParameters ==
    {[averageSpeed |-> a, speedIncrease |-> i, speedDecrease |-> d, pointDuration |-> p] :
        a \in {0, 1}, i \in {0, 1}, d \in {0, 1}, p \in {0, 1}}

ValidateTracks ==
    {[distance |-> dist, averageSpeed |-> q.averageSpeed,
      brakePoints |-> b, straightPoints |-> st,
      speedIncrease |-> q.speedIncrease, pointDuration |-> q.pointDuration,
      speedDecrease |-> q.speedDecrease] :
        dist \in ValidateDistances, b \in PointArrays, st \in PointArrays,
        q \in {r \in ValidateParameters :
                 r.averageSpeed + r.speedIncrease + r.speedDecrease + r.pointDuration >= 3}}

InitValidate ==
    /\ \E trk \in ValidateTracks : InitWith("validate", trk, CarManager_reset(1))
    /\ budget = [adds |-> 0, inputs |-> 0, lifecycle |-> 0, horizon |-> 0]

\* hist.arg is 1 when the call threw and 0 when it returned.
ValidateTrackCall ==
    /\ hist.op = "init"
    /\ hist' = [hist EXCEPT !.op = "validateTrack",
                            !.arg = IF validateTrack(track) = "ok" THEN 0 ELSE 1]
    /\ UNCHANGED << now, mode, netVars, track, car, activeCheckpoints, processedCheckpoints,
                    hookVars, budget >>

NextValidate == ValidateTrackCall

SpecValidate == InitValidate /\ [][NextValidate]_vars

StrictlyInside(points, distance) ==
    \A i \in 1..Len(points) : points[i] > 0 /\ points[i] < distance

StrictlyAscending(points) ==
    \A i \in 1..(Len(points) - 1) : points[i] < points[i + 1]

PositiveParameters(trk) ==
    /\ trk.distance > 0
    /\ trk.averageSpeed > 0
    /\ trk.speedIncrease > 0
    /\ trk.speedDecrease > 0
    /\ trk.pointDuration > 0

PointsAsSpecified(trk) ==
    /\ StrictlyInside(trk.brakePoints, trk.distance)
    /\ StrictlyInside(trk.straightPoints, trk.distance)
    /\ StrictlyAscending(trk.brakePoints)
    /\ StrictlyAscending(trk.straightPoints)

\* C33: validateTrack throws for every track with a point not strictly
\* inside (0, distance), or with points not ascending or repeated, and
\* accepts every track that meets these constraints and has positive
\* parameters.
C33_ValidateTrackEnforcesPoints ==
    hist.op = "validateTrack" =>
        /\ ~PointsAsSpecified(track) => hist.arg = 1
        /\ (PointsAsSpecified(track) /\ PositiveParameters(track)) => hist.arg = 0

-----------------------------------------------------------------------------
(* SpecClose: one race on a track whose two brake triggers are 10 m apart,   *)
(* so that the second is reached while the window of the first is open.      *)

MaxCloseQuanta == 9
MaxCloseInputs == 1

CloseTrack ==
    [distance |-> Metres(40), averageSpeed |-> MPS(50),
     brakePoints |-> << Metres(10), Metres(20) >>,
     straightPoints |-> << Metres(5) >>,
     speedIncrease |-> MPS(2), pointDuration |-> 700, speedDecrease |-> MPS(10)]

InitClose == InitHookOn(CloseTrack, MaxCloseInputs, 1, MaxCloseQuanta)

SpecClose == InitClose /\ [][NextRace]_vars

\* C34: in a running race, every unexpired active trigger TrackManager holds
\* is the one the snapshot shows for its kind (active, same activatedAt and
\* duration), and whenever a press would be green the reaction time taken
\* from the snapshot plus the boost duration taken from TrackManager is
\* pointDuration.
C34_SnapshotAgreesWithTrackManager ==
    gameState.gameStatus = "running" =>
        \A k \in ControlTypes :
            /\ \A i \in 1..Len(UnexpiredOfKind(TM, k, now)) :
                  LET cp == UnexpiredOfKind(TM, k, now)[i]
                  IN  /\ gameState.activeControls[k].isActive
                      /\ gameState.activeControls[k].activatedAt = cp.activatedAt
                      /\ gameState.activeControls[k].duration = cp.duration
            /\ isControlActive(TM, k, now) =>
                  (now - gameState.activeControls[k].activatedAt)
                     + Max(0, getRemainingDuration(TM, k, now))
                  = gameState.track.pointDuration

-----------------------------------------------------------------------------
(* SpecPenalty: races on the default track started one after another, with  *)
(* presses of the brake on the frame grid and penalty timeouts firing.       *)
(* The clock stops before the first trigger is reached.                     *)

MaxPenaltyQuanta == 13
MaxPenaltyInputs == 3
MaxPenaltyLifecycle == 2

InitPenalty ==
    InitHookOn(DEFAULT_GAME_CONFIG, MaxPenaltyInputs, MaxPenaltyLifecycle, MaxPenaltyQuanta)

NextPenalty ==
    \/ StartRace
    \/ RestartRace
    \/ StartTimeout
    \/ \E i \in 1..Len(timeouts) : PenaltyTimeout(i)
    \/ HandleControlInput("brake", 0)
    \/ GameLoop
    \/ AdvanceFrame

SpecPenalty == InitPenalty /\ [][NextPenalty]_vars

UnexpiredOfModifierType(type) ==
    SelectSeq(car.speedModifiers,
              LAMBDA m : m.type = type /\ now - m.startTime < m.duration)

\* The controls that earned a penalty / a boost in the current race.
Penalised == {k \in ControlTypes : hist.penaltyAt[k] # NoTime}
Boosted == {k \in ControlTypes : hist.boosts[k] > 0}

\* C35: on the default track a running car carries at most one unexpired
\* penalty and one unexpired boost per control (so no more of either than
\* controls that earned one), and its speed stays between 30 m/s and 95 m/s.
C35_SpeedWithinThirtyAndNinetyFive ==
    gameState.gameStatus = "running" =>
        /\ Len(UnexpiredOfModifierType("decrease")) <= Cardinality(Penalised)
        /\ Len(UnexpiredOfModifierType("increase")) <= Cardinality(Boosted)
        /\ car.currentSpeed >= MPS(30)
        /\ car.currentSpeed <= MPS(95)

-----------------------------------------------------------------------------
(* Every trigger of a race (checked under SpecOverlap) *)

FiredInOrder(points, type) ==
    \A i \in 1..Len(points) :
        /\ hist.fired[CheckpointKey(type, points[i])] <= 1
        /\ (i > 1 /\ hist.fired[CheckpointKey(type, points[i])] = 1) =>
              hist.fired[CheckpointKey(type, points[i - 1])] = 1

\* C36: on the default track the triggers of each kind fire in ascending
\* order of distance, none twice, and when the car has driven the race to
\* the finish each of the eight has fired exactly once.
C36_EveryTriggerFiresOnce ==
    /\ FiredInOrder(track.brakePoints, "brake_point")
    /\ FiredInOrder(track.straightPoints, "straight_point")
    /\ gameState.gameStatus = "finished" =>
          \A key \in AllKeys(track) : hist.fired[key] = 1

\* A race driven to the finish with boosts on the way.
C36_Witness ==
    /\ gameState.gameStatus = "finished"
    /\ car.distanceCovered = track.distance
    /\ Cardinality(AllKeys(track)) = 8
    /\ \A key \in AllKeys(track) : hist.fired[key] = 1
    /\ \A k \in ControlTypes : hist.boosts[k] >= 2

-----------------------------------------------------------------------------
(* The two collections of TrackManager (checked under SpecTrack) *)

ActiveWithinProcessed ==
    \A i \in 1..Len(activeCheckpoints) :
        KeyOf(activeCheckpoints[i]) \in processedCheckpoints

ProcessedGrows ==
    hist'.op # "reset" => processedCheckpoints \subseteq processedCheckpoints'

\* C37: every active trigger is in the processed set, and no call other than
\* reset() takes a trigger out of the processed set.
C37_ActiveWithinProcessedWhichGrows ==
    [](ActiveWithinProcessed) /\ [][ProcessedGrows]_vars

\* getControlStates() has dropped an expired trigger from the active map: it
\* stays processed, next to a trigger that is still active.
C37_Witness ==
    /\ hist.op = "getControlStates"
    /\ Len(activeCheckpoints) >= 1
    /\ \A i \in 1..Len(activeCheckpoints) : now - activeCheckpoints[i].activatedAt < 2
    /\ \E key \in processedCheckpoints :
          \A i \in 1..Len(activeCheckpoints) : KeyOf(activeCheckpoints[i]) # key
    /\ now >= 2

-----------------------------------------------------------------------------
(* SpecClock: one race on the sprint track without input, the frames 60, 100 *)
(* or 150 ms apart, so that getDeltaTime() caps some of them.                *)

MaxClockMs == 900

ClockGaps == {60, MaxDeltaMs, 150}

ClockGap(gap) ==
    /\ gameState.gameStatus = "running"
    /\ ~frameDue
    /\ now + gap - gameState.raceStartTime <= MaxClockMs
    /\ now' = now + gap
    /\ frameDue' = TRUE
    /\ hist' = [hist EXCEPT !.op = "advance", !.arg = gap]
    /\ UNCHANGED << mode, netVars, track, timer, car, activeCheckpoints, processedCheckpoints,
                    gameState, inputCooldown, activePenalties, timeouts,
                    pendingStarts, budget >>

InitClock == InitHookOn(SprintTrack, 0, 1, 0)

NextClock ==
    \/ StartRace
    \/ GameLoop
    \/ \E gap \in ClockGaps : ClockGap(gap)

SpecClock == InitClock /\ [][NextClock]_vars

\* C38: the getDeltaTime() results since start() add up to no more than the
\* elapsed time getCurrentTime() reports, so a race without input is never
\* recorded as shorter than distance / averageSpeed.
C38_DrivenTimeWithinElapsed ==
    /\ hist.deltaSum <= getCurrentTime(timer, now)
    /\ gameState.gameStatus = "finished" =>
          /\ hist.deltaSum <= gameState.track.raceTime
          /\ gameState.track.raceTime * gameState.track.averageSpeed
                >= gameState.track.distance

\* A race finished with capped frames: 400 ms were driven and the recorded
\* time is longer.
C38_Witness ==
    /\ gameState.gameStatus = "finished"
    /\ car.distanceCovered = track.distance
    /\ hist.deltaSum * track.averageSpeed = track.distance
    /\ gameState.track.raceTime > hist.deltaSum

-----------------------------------------------------------------------------
(* The reaction helpers of checkpointValidation.ts *)

Abs(x) == IF x < 0 THEN 0 - x ELSE x

validateInputTiming(input, checkpointEvent) ==
    LET reactionTime == input.timestamp - checkpointEvent.activatedAt
    IN  IF checkpointEvent = NoEvent
        THEN [isValid |-> FALSE, reactionTime |-> 0, timingAccuracy |-> "penalty"]
        ELSE IF reactionTime < 0
        THEN [isValid |-> FALSE, reactionTime |-> Abs(reactionTime),
              timingAccuracy |-> "penalty"]
        ELSE IF reactionTime > checkpointEvent.duration
        THEN [isValid |-> FALSE, reactionTime |-> reactionTime,
              timingAccuracy |-> "penalty"]
        ELSE [isValid |-> TRUE, reactionTime |-> reactionTime,
              timingAccuracy |-> IF reactionTime <= 100 THEN "perfect"
                                 ELSE IF reactionTime <= 300 THEN "good"
                                 ELSE "late"]

calculateSpeedModification(baseSpeedIncrease, baseSpeedDecrease, timingAccuracy, remainingDuration) ==
    CASE timingAccuracy = "perfect" ->
            [type |-> "increase", amount |-> (baseSpeedIncrease * 12) \div 10,
             duration |-> remainingDuration]
      [] timingAccuracy = "good" ->
            [type |-> "increase", amount |-> baseSpeedIncrease,
             duration |-> remainingDuration]
      [] timingAccuracy = "late" ->
            [type |-> "increase", amount |-> (baseSpeedIncrease * 8) \div 10,
             duration |-> remainingDuration]
      [] timingAccuracy = "penalty" ->
            [type |-> "decrease", amount |-> baseSpeedDecrease, duration |-> 1000]

isInputWithinWindow(inputTimestamp, checkpointActivatedAt, checkpointDuration) ==
    LET reactionTime == inputTimestamp - checkpointActivatedAt
    IN  reactionTime >= 0 /\ reactionTime <= checkpointDuration

\* The modifier the helpers give for the last press and the trigger it
\* reacted to.
HelperModifier ==
    LET timing == validateInputTiming([timestamp |-> LastInput.at], ReactedTrigger)
    IN  calculateSpeedModification(track.speedIncrease, track.speedDecrease,
                                   timing.timingAccuracy,
                                   ReactedTrigger.duration - Reaction)

\* C39: for a press inside an open window the helpers give the modifier
\* handleControlInput adds (type, amount, duration), and isInputWithinWindow
\* accepts an instant for the one active trigger of a kind exactly when
\* isControlActive reports the kind active.
C39_HelpersAgreeWithOrchestrator ==
    /\ AfterInput("boost") =>
          /\ HelperModifier.type = AddedModifier.type
          /\ HelperModifier.amount = AddedModifier.amount
          /\ HelperModifier.duration = AddedModifier.duration
    /\ \A k \in ControlTypes :
          Len(OfType(activeCheckpoints, CheckpointType(k))) = 1 =>
              LET cp == OfType(activeCheckpoints, CheckpointType(k))[1]
              IN  isInputWithinWindow(now, cp.activatedAt, cp.duration)
                     <=> isControlActive(TM, k, now)

-----------------------------------------------------------------------------
(* useNetworkError  (src/src/client/hooks/useNetworkError.ts)               *)
(* A retryRequest call is in flight from its call to its return: it waits   *)
(* for its delay, calls retryFn, and handles the outcome.  Each call works  *)
(* on the networkError its closure captured; calls of the hook's functions  *)
(* may fall between any two of these steps.                                 *)

MAX_RETRY_ATTEMPTS == 3
RETRY_DELAY_MS == 1000

MaxNetCalls == 5        \* handleNetworkError / retryRequest / clearError calls per run

NoStatus == 0           \* status is undefined

RECURSIVE Pow2(_)
Pow2(n) == IF n = 0 THEN 1 ELSE 2 * Pow2(n - 1)

\* The errors handed to handleNetworkError: what the classification reads.
NetErrors ==
    { [name |-> "TypeError", mentions |-> "fetch", status |-> NoStatus],
      [name |-> "Error", mentions |-> "timeout", status |-> NoStatus],
      [name |-> "Error", mentions |-> "other", status |-> 503] }

ClassifyError(error) ==
    IF error.status = 404 THEN "Game service not found"
    ELSE IF error.status = 500 THEN "Server error occurred"
    ELSE IF error.status = 503 THEN "Game service temporarily unavailable"
    ELSE IF error.name = "TypeError" /\ error.mentions = "fetch"
         THEN "Unable to connect to game server"
    ELSE IF error.mentions = "timeout" THEN "Request timed out"
    ELSE "Network connection failed"

UseNetCall ==
    /\ budget.inputs > 0
    /\ budget' = [budget EXCEPT !.inputs = @ - 1]

NetOther == << mode, track, timer, car, activeCheckpoints, processedCheckpoints,
               gameState, inputCooldown, activePenalties, timeouts, pendingStarts,
               frameDue >>

HandleNetworkError(error) ==
    /\ UseNetCall
    /\ networkError' =
          [message |-> ClassifyError(error), status |-> error.status,
           retryCount |-> IF networkError = NoNetworkError THEN 0
                          ELSE networkError.retryCount,
           timestamp |-> now]
    /\ hist' = [hist EXCEPT !.op = "handleNetworkError"]
    /\ UNCHANGED << now, isRetrying, retries, NetOther >>

\* retryRequest(retryFn) up to its first await.
RetryRequest ==
    /\ UseNetCall
    /\ IF networkError = NoNetworkError \/ networkError.retryCount >= MAX_RETRY_ATTEMPTS
       THEN UNCHANGED << isRetrying, retries >>
       ELSE /\ isRetrying' = TRUE
            /\ retries' = Append(retries,
                  [due |-> now + RETRY_DELAY_MS * Pow2(networkError.retryCount),
                   phase |-> "delay"])
    /\ hist' = [hist EXCEPT !.op = "retryRequest"]
    /\ UNCHANGED << now, networkError, NetOther >>

\* The delay of call i has elapsed: retryFn() is called.  hist.arg is the
\* stored retryCount at that moment.
CallRetryFn(i) ==
    /\ retries[i].phase = "delay"
    /\ retries[i].due <= now
    /\ retries' = [retries EXCEPT ![i].phase = "retryFn"]
    /\ hist' = [hist EXCEPT !.op = "retryFn",
                            !.arg = IF networkError = NoNetworkError THEN 0
                                    ELSE networkError.retryCount]
    /\ UNCHANGED << now, networkError, isRetrying, NetOther, budget >>

Without(s, i) == SubSeq(s, 1, i - 1) \o SubSeq(s, i + 1, Len(s))

\* retryFn() of call i resolves: the error is cleared.
RetrySucceeds(i) ==
    /\ retries[i].phase = "retryFn"
    /\ networkError' = NoNetworkError
    /\ isRetrying' = FALSE
    /\ retries' = Without(retries, i)
    /\ hist' = [hist EXCEPT !.op = "retrySucceeded"]
    /\ UNCHANGED << now, NetOther, budget >>

\* retryFn() of call i rejects: the stored retryCount goes up by one.
RetryFails(i) ==
    /\ retries[i].phase = "retryFn"
    /\ networkError' = IF networkError = NoNetworkError THEN NoNetworkError
                       ELSE [networkError EXCEPT !.retryCount = @ + 1,
                                                 !.timestamp = now]
    /\ isRetrying' = FALSE
    /\ retries' = Without(retries, i)
    /\ hist' = [hist EXCEPT !.op = "retryFailed"]
    /\ UNCHANGED << now, NetOther, budget >>

ClearError ==
    /\ UseNetCall
    /\ networkError' = NoNetworkError
    /\ isRetrying' = FALSE
    /\ hist' = [hist EXCEPT !.op = "clearError"]
    /\ UNCHANGED << now, retries, NetOther >>

\* The clock moves on to the end of the next delay.
NetAdvance ==
    /\ \E i \in 1..Len(retries) : retries[i].phase = "delay"
    /\ \A i \in 1..Len(retries) : retries[i].phase = "delay" => retries[i].due > now
    /\ \E i \in 1..Len(retries) :
          /\ retries[i].phase = "delay"
          /\ \A j \in 1..Len(retries) :
                retries[j].phase = "delay" => retries[i].due <= retries[j].due
          /\ now' = retries[i].due
    /\ hist' = [hist EXCEPT !.op = "advance"]
    /\ UNCHANGED << netVars, NetOther, budget >>

InitNet ==
    /\ InitWith("network", BenchTrack, CarManager_reset(1))
    /\ budget = [adds |-> 0, inputs |-> MaxNetCalls, lifecycle |-> 0, horizon |-> 0]

NextNet ==
    \/ \E error \in NetErrors : HandleNetworkError(error)
    \/ RetryRequest
    \/ \E i \in 1..Len(retries) : CallRetryFn(i)
    \/ \E i \in 1..Len(retries) : RetrySucceeds(i)
    \/ \E i \in 1..Len(retries) : RetryFails(i)
    \/ ClearError
    \/ NetAdvance

SpecNet == InitNet /\ [][NextNet]_vars

\* C40: the stored retryCount never exceeds MAX_RETRY_ATTEMPTS, retryFn is
\* never called when it has reached that number, a retry that succeeds
\* clears the error, and a retry that fails adds exactly 1 to the count.
C40_Step ==
    /\ hist'.op = "retryFn" => hist'.arg < MAX_RETRY_ATTEMPTS
    /\ hist'.op = "retrySucceeded" => networkError' = NoNetworkError
    /\ (hist'.op = "retryFailed" /\ networkError # NoNetworkError) =>
          networkError'.retryCount = networkError.retryCount + 1
    /\ networkError'.retryCount <= MAX_RETRY_ATTEMPTS

C40_RetriesAreBounded == [][C40_Step]_vars
====
